---------------------------- MODULE Spec2Model ----------------------------
(***************************************************************************)
(* The push runner of the fingerprint extension pack (fingerprintRunner,   *)
(* handleDiffs, tallyVotes, missingInfo, lastFingerprints) as a state      *)
(* machine over one push at a time.  Every await of the TypeScript source  *)
(* is a point where the corresponding promise settles in an action of its  *)
(* own; the synchronous code that runs after a promise settles (the rest   *)
(* of the async function up to its next await) is part of that action.     *)
(***************************************************************************)
EXTENDS Naturals, Sequences, FiniteSets, TLC

(***************************************************************************)
(* Bounds of the model.                                                    *)
(***************************************************************************)
\* the largest number of fingerprints the Aspects extract in one push
MaxFps == 2
\* the largest number of target checks the handlers of one push make
MaxChecks == 2
\* the largest number of callbacks (extract, diffHandler, handler, ballot,
\* graph queries) that throw or reject in one push
MaxFail == 1

(***************************************************************************)
(* Values.                                                                 *)
(***************************************************************************)
Names == {"a", "b"}
Shas == {"A", "B"}

\* JavaScript's undefined: a missing record entry, a missing field
Undefined == [undefined |-> TRUE]

\* !!x for the values the model holds
Truthy(x) == x # Undefined

\* a fingerprint; the runner reads its name and its sha only
FP == [name : Names, sha : Shas]

\* the pushes the runner is invoked with: one with a before commit, one
\* without (the first push of a branch)
Pushes ==
    { [id |-> "push1", branch |-> "master", owner |-> "o1", repo |-> "r1",
       after |-> [sha |-> "c2"], before |-> [sha |-> "c1"]],
      [id |-> "push2", branch |-> "dev", owner |-> "o2", repo |-> "r2",
       after |-> [sha |-> "c3"], before |-> Undefined] }

NoPush == [id |-> "none"]

\* what the GetPushDetails query holds for a push
PushDetails(p) ==
    IF p.id = "push1" THEN [providerId |-> "prov1", channel |-> "chan1"]
                      ELSE [providerId |-> "prov2", channel |-> "chan2"]

\* the registered Features, in registration order
Fingerprinters == <<"deps", "files">>

\* the registered handlers, in registration order; a missing callback is
\* FALSE, the selector is the set of fingerprint names it accepts
Handlers ==
    << [selector |-> Names, diffHandler |-> FALSE, handler |-> TRUE, ballot |-> TRUE],
       [selector |-> {"a"}, diffHandler |-> TRUE, handler |-> FALSE, ballot |-> TRUE],
       [selector |-> Names, diffHandler |-> TRUE, handler |-> TRUE, ballot |-> FALSE] >>

HandlerIdx == [h \in 1..Len(Handlers) |-> h]

Kinds == {"diffHandler", "handler"}

\* what a Feature's extract resolves to: one fingerprint, an array of
\* fingerprints, or nothing (null / undefined)
SeqsUpTo(S, n) == UNION { [1..m -> S] : m \in 0..n }

ExtractValues ==
    { [kind |-> "null"] }
    \cup { [kind |-> "fp", fp |-> f] : f \in FP }
    \cup { [kind |-> "array", fps |-> s] : s \in SeqsUpTo(FP, MaxFps) }

NoValue == [kind |-> "none"]

SizeOf(v) == IF v.kind = "fp" THEN 1 ELSE IF v.kind = "array" THEN Len(v.fps) ELSE 0

\* the records lastFingerprints can build from the analysis of the before
\* commit: per name no entry, or the fingerprint of that name.  The runner
\* only compares shas for equality, so the before commit's fingerprints are
\* taken with sha "A" and the extracted ones with either sha.
PreviousShas == {"A"}

PreviousMaps ==
    { m \in [Names -> {Undefined} \cup [name : Names, sha : PreviousShas]] :
        \A n \in Names : Truthy(m[n]) => m[n].name = n }

EmptyRecord == [n \in Names |-> Undefined]

\* the ways lastFingerprints rejects
HistoryFailures == {"failed", "noCommit"}

VARIABLES
    pc,        \* where the runner's async function stands
    push,      \* i.push
    info,      \* const info: MissingInfo
    previous,  \* let previous: Record<string, FP>
    ext,       \* per Feature: its extract call and the promise it returned
    allFps,    \* const allFps: FP[]
    events,    \* the AtomistFingerprint events handed to the message client
    hd,        \* per fingerprint: where its handleDiffs call stands
    calls,     \* per fingerprint, handler and callback: its invocations
    allVotes,  \* const allVotes: Vote[]
    ballots,   \* per handler: its ballot invocations
    returned,  \* the value the runner's promise resolved with, once it has
    fails,     \* failures so far in this push
    history    \* what the GetAllFpsOnSha query of this push came back with

\* the argument and the result of a function of the pack applied on its own
VARIABLES arg, res

\* the team's target fingerprints, the snapshot one push works on, and what
\* the handlers of that push were shown
VARIABLES store, snap, seen

\* two invocations of one runner at the same time: where each stands, what
\* its push holds, what it handed out, the locals of the invocations, and the
\* Aspect and handler lists the runner was constructed with
VARIABLES runPc, runIn, runOut, frames, lists

\* one call of sendFingerprintToAtomist: where it stands, the graph client
\* calls it made and their outcomes, what it logged and what it handed back
VARIABLES send

\* one run of the apply-target transform: where it stands, the registered
\* Aspects, the target, the applies invoked, the project and what came back
VARIABLES xform

\* one run of the apply-all transform: where it stands, the fingerprints asked for, the one the loop is at, the applies invoked with their outcomes, and what came back
VARIABLES batch

\* one apply of a file fingerprint to a project: where it stands, the files of the project before and now, the fingerprint applied, how often, and what a later extract gave
VARIABLES proj

\* the target store and the commands run against it: the target stored under each key, for each (type, name) the last command whose write succeeded, and the number of commands so far
VARIABLES targets

\* a target command in progress: its position, its parameters, the store, and what it has emitted
VARIABLES cmd

\* the apply-all transform on a working copy: its position, the fingerprints listed, how far each apply is, and the copy
VARIABLES all

\* the publishing of the fingerprint events by one run of the runner: the events, how each send stands, and where the runner is
VARIABLES pub

\* a PushImpact event at the old event handler: the listener's position and report, the processing it started, and the handler actions
VARIABLES evt

\* the default target diff handler on a list of diffs: its position, the diffs, the checks started, the votes checked, and what it returned
VARIABLES dth

runnerVars == <<pc, push, info, previous, ext, allFps, events, hd, calls, allVotes,
                ballots, returned, fails, history>>
pureVars == <<arg, res>>
snapVars == <<store, snap, seen>>
concVars == <<runPc, runIn, runOut, frames, lists>>

vars == <<runnerVars, pureVars, snapVars, concVars, send, xform, batch, proj, targets, cmd, all, pub, evt, dth>>

\* the variables a part of the pack leaves alone
notRunner == <<pureVars, snapVars, concVars, send, xform, batch, proj, targets, cmd, all, pub, evt, dth>>
notPure == <<runnerVars, snapVars, concVars, send, xform, batch, proj, targets, cmd, all, pub, evt, dth>>
notSnap == <<runnerVars, pureVars, concVars, send, xform, batch, proj, targets, cmd, all, pub, evt, dth>>
notConc == <<runnerVars, pureVars, snapVars, send, xform, batch, proj, targets, cmd, all, pub, evt, dth>>
notSend == <<runnerVars, pureVars, snapVars, concVars, xform, batch, proj, targets, cmd, all, pub, evt, dth>>
notXform == <<runnerVars, pureVars, snapVars, concVars, send, batch, proj, targets, cmd, all, pub, evt, dth>>
notBatch == <<runnerVars, pureVars, snapVars, concVars, send, xform, proj, targets, cmd, all, pub, evt, dth>>
notProj == <<runnerVars, pureVars, snapVars, concVars, send, xform, batch, targets, cmd, all, pub, evt, dth>>
notTargets == <<runnerVars, pureVars, snapVars, concVars, send, xform, batch, proj, cmd, all, pub, evt, dth>>
notCmd == <<runnerVars, pureVars, snapVars, concVars, send, xform, batch, proj, targets, all, pub, evt, dth>>
notAll == <<runnerVars, pureVars, snapVars, concVars, send, xform, batch, proj, targets, cmd, pub, evt, dth>>
notPub == <<runnerVars, pureVars, snapVars, concVars, send, xform, batch, proj, targets, cmd, all, evt, dth>>
notEvt == <<runnerVars, pureVars, snapVars, concVars, send, xform, batch, proj, targets, cmd, all, pub, dth>>
notDth == <<runnerVars, pureVars, snapVars, concVars, send, xform, batch, proj, targets, cmd, all, pub, evt>>

NoCall == [n |-> 0, st |-> "none", diff |-> Undefined, vote |-> Undefined]
NoBallot == [n |-> 0, st |-> "none", votes |-> Undefined, coord |-> Undefined,
             channel |-> Undefined]
NoExtract == [n |-> 0, st |-> "none", val |-> NoValue]

\* no function is being applied on its own
PureOff ==
    /\ arg = Undefined
    /\ res = Undefined

\* no target is set and no push is being looked at
SnapOff ==
    /\ store = [n \in Names |-> "none"]
    /\ snap = [pc |-> "idle"]
    /\ seen = <<>>

\* the two invocations of the runner
Runs == {1, 2}

\* the locals of an invocation before it sets them
NoFrame == [previous |-> EmptyRecord, allFps |-> <<>>, allVotes |-> <<>>]

\* no invocation of the runner is under way
ConcOff ==
    /\ runPc = [r \in Runs |-> "idle"]
    /\ runIn = [r \in Runs |-> Undefined]
    /\ runOut = [r \in Runs |-> Undefined]
    /\ frames = [f \in Runs |-> NoFrame]
    /\ lists = [fingerprinters |-> Fingerprinters, handlers |-> HandlerIdx]

\* sendFingerprintToAtomist has not been called
SendOff ==
    send = [pc |-> "idle", queries |-> 0, query |-> "unissued", mutations |-> <<>>, issued |-> 0,
            logged |-> <<>>, returned |-> Undefined, threw |-> FALSE]

\* the fingerprint types Aspects select on
AspectTypes == {"t", "u"}

\* the apply-target transform has not been run
XformOff ==
    xform = [pc |-> "idle", aspects |-> <<>>, type |-> "none", applied |-> <<>>,
             edited |-> FALSE, pushed |-> "none", result |-> "none", failedAt |-> "none"]

\* the apply-all transform has not been run
BatchOff ==
    batch = [pc |-> "idle", owned |-> <<>>, at |-> 0, applied |-> <<>>,
             outcomes |-> <<>>, result |-> "none", failedAt |-> "none"]

\* no file fingerprint has been applied
ProjOff ==
    proj = [pc |-> "idle", before |-> <<>>, files |-> <<>>, fp |-> Undefined,
            applies |-> 0, once |-> <<>>, extracted |-> Undefined]

\* no target is stored and no command has run
TargetsOff ==
    targets = [store |-> [k \in AspectTypes \X Names |-> Undefined],
               last |-> [k \in AspectTypes \X Names |-> Undefined], n |-> 0]

\* no target command has run and no target is stored
CmdOff ==
    cmd = [pc |-> "idle", kind |-> "none", type |-> "none", name |-> "none", sha |-> "none",
           broadcast |-> FALSE, fp |-> Undefined,
           store |-> [k \in AspectTypes \X Names |-> Undefined],
           before |-> [k \in AspectTypes \X Names |-> Undefined],
           wrote |-> "none", logs |-> <<>>, msgs |-> <<>>, result |-> "none", n |-> 0]

\* the apply-all transform has not been run on a working copy
AllOff ==
    all = [pc |-> "idle", listed |-> <<>>, st |-> <<>>, before |-> <<>>, files |-> <<>>,
           result |-> "none"]

\* no fingerprint event has been published
PubOff ==
    pub = [pc |-> "idle", push |-> Undefined, fps |-> <<>>, events |-> <<>>, sends |-> <<>>,
           logged |-> <<>>, failedBy |-> "none"]

\* no PushImpact event has arrived
EvtOff ==
    evt = [pc |-> "idle", result |-> "none", proc |-> "none", actions |-> <<>>]

\* the default target diff handler has not been called
DthOff ==
    dth = [pc |-> "idle", diffs |-> <<>>, started |-> <<>>, checked |-> <<>>,
           votes |-> Undefined]

\* the runner before its first push
RunnerInit ==
    /\ pc = "idle"
    /\ push = NoPush
    /\ info = Undefined
    /\ previous = EmptyRecord
    /\ ext = [a \in 1..Len(Fingerprinters) |-> NoExtract]
    /\ allFps = <<>>
    /\ events = <<>>
    /\ hd = <<>>
    /\ calls = <<>>
    /\ allVotes = <<>>
    /\ ballots = [h \in 1..Len(Handlers) |-> NoBallot]
    /\ returned = Undefined
    /\ fails = 0
    /\ history = "unread"

Init ==
    /\ RunnerInit
    /\ PureOff
    /\ SnapOff
    /\ ConcOff
    /\ SendOff
    /\ XformOff
    /\ BatchOff
    /\ ProjOff
    /\ TargetsOff
    /\ CmdOff
    /\ AllOff
    /\ PubOff
    /\ EvtOff
    /\ DthOff

(***************************************************************************)
(* fingerprintRunner: the reduce that flattens the extraction results.     *)
(***************************************************************************)
\* one step of the reduce: (acc, fps) => ...
reduceStep(acc, fps) ==
    IF fps.kind # "null" /\ fps.kind # "array" THEN Append(acc, fps.fp)
    ELSE IF fps.kind # "null" THEN acc \o fps.fps
    ELSE acc

RECURSIVE reduceFps(_, _)
reduceFps(results, acc) ==
    IF results = <<>> THEN acc
    ELSE reduceFps(Tail(results), reduceStep(acc, Head(results)))

\* the event sendCustomEvent hands to client.send for one fingerprint
customEvent(fp, p) == [name |-> fp.name, sha |-> fp.sha, commitSha |-> p.after.sha]

(***************************************************************************)
(* handleDiffs.                                                            *)
(***************************************************************************)
selects(h, fp) == fp.name \in Handlers[h].selector

\* handlers.filter(h => h.diffHandler).filter(h => h.selector(fp))
diffHandlersFor(fp) ==
    SelectSeq(HandlerIdx, LAMBDA h : Handlers[h].diffHandler /\ selects(h, fp))

\* handlers.filter(h => h.handler).filter(h => h.selector(fp))
handlersFor(fp) ==
    SelectSeq(HandlerIdx, LAMBDA h : Handlers[h].handler /\ selects(h, fp))

\* previous && fp.sha !== previous.sha
shaChanged(fp, prev) == Truthy(prev) /\ fp.sha # prev.sha

\* a Diff with from and to the wrong way round
makeDiffSwapped(fp, prev, inf, p) ==
    [providerId |-> inf.providerId, channel |-> inf.channel,
     from |-> fp, to |-> prev,
     branch |-> p.branch, owner |-> p.owner, repo |-> p.repo, sha |-> p.after.sha,
     data |-> [from |-> <<>>, to |-> <<>>]]

\* const diff: Diff = {...info, from: previous, to: fp, ...}
makeDiff(fp, prev, inf, p) ==
    [providerId |-> inf.providerId, channel |-> inf.channel,
     from |-> prev, to |-> fp,
     branch |-> p.branch, owner |-> p.owner, repo |-> p.repo, sha |-> p.after.sha,
     data |-> [from |-> <<>>, to |-> <<>>]]

\* list.map(h => h.<kind>(i.context, diff)) for fingerprint k: the callbacks are
\* invoked in list order; when the t-th one throws synchronously (t > 0) the map
\* stops there and the later ones are never invoked
invokeAll(cs, k, kind, list, t, d) ==
    LET upto == IF t = 0 THEN Len(list) ELSE t
        called == { list[j] : j \in 1..upto }
    IN [c \in DOMAIN cs |->
          IF c[1] = k /\ c[3] = kind /\ c[2] \in called
          THEN [n |-> cs[c].n + 1,
                st |-> IF t # 0 /\ c[2] = list[t] THEN "threw" ELSE "pending",
                diff |-> d, vote |-> Undefined]
          ELSE cs[c]]

\* the callbacks handleDiffs invokes before its first await takes time: the
\* diffHandlers when the sha changed (an empty Promise.all resolves at once and
\* the function goes on to the handlers), otherwise the handlers
firstKind(fp, prev) ==
    IF shaChanged(fp, prev) /\ diffHandlersFor(fp) # <<>> THEN "diffHandler" ELSE "handler"

firstList(fp, prev) ==
    IF firstKind(fp, prev) = "diffHandler" THEN diffHandlersFor(fp) ELSE handlersFor(fp)

\* where handleDiffs stands after invoking `list`: rejected by a synchronous
\* throw, resolved when it awaits nothing more, else awaiting the callbacks
hdAfterInvoke(kind, list, t) ==
    IF t # 0 THEN "rejected"
    ELSE IF list = <<>> THEN "resolved"
    ELSE kind

\* return [].concat(diffVotes, currentVotes)
votesOf(cs, k, fp, prev) ==
    LET dl == diffHandlersFor(fp)
        cl == handlersFor(fp)
        diffVotes == IF shaChanged(fp, prev)
                     THEN [j \in 1..Len(dl) |-> cs[<<k, dl[j], "diffHandler">>].vote]
                     ELSE <<>>
        currentVotes == [j \in 1..Len(cl) |-> cs[<<k, cl[j], "handler">>].vote]
    IN diffVotes \o currentVotes

\* the vote a callback returns: which it is is up to the handler; the model
\* tags it with the invocation that produced it
Vote(k, h, kind) == [handler |-> h, callback |-> kind, fp |-> k]

(***************************************************************************)
(* tallyVotes.                                                             *)
(***************************************************************************)
coordinate(p, inf) ==
    [owner |-> p.owner, repo |-> p.repo, sha |-> p.after.sha,
     providerId |-> inf.providerId, branch |-> p.branch]

\* handlers.map(async h => { if (h.ballot) { await h.ballot(...) } })
tallyVotes(bs, vts, p, inf) ==
    [h \in DOMAIN bs |->
        IF Handlers[h].ballot
        THEN [n |-> bs[h].n + 1, st |-> "pending", votes |-> vts,
              coord |-> coordinate(p, inf), channel |-> inf.channel]
        ELSE bs[h]]

\* (await Promise.all(...handleDiffs...)).reduce((acc, vts) => acc.concat(vts), [])
RECURSIVE concatVotes(_, _, _, _)
concatVotes(cs, fps, prev, k) ==
    IF k > Len(fps) THEN <<>>
    ELSE votesOf(cs, k, fps[k], prev[fps[k].name]) \o concatVotes(cs, fps, prev, k + 1)

(***************************************************************************)
(* The runner after a step of the dispatch: Promise.all over the           *)
(* handleDiffs promises rejects with the first rejection, and resolves     *)
(* when all have resolved; then the votes are concatenated and tallyVotes  *)
(* invokes the ballots; with no ballot to wait for the runner returns.     *)
(***************************************************************************)
\* a runner that tallies as soon as one handleDiffs promise has resolved
\* (Promise.race in place of Promise.all)
JoinDispatchRace(hdN, csN, fpsN, prevN, infN) ==
    IF \E k \in DOMAIN hdN : hdN[k] = "rejected"
    THEN /\ pc' = "failed"
         /\ UNCHANGED <<allVotes, ballots, returned>>
    ELSE IF \E k \in DOMAIN hdN : hdN[k] = "resolved"
    THEN LET vts == concatVotes(csN, fpsN, prevN, 1)
             bsN == tallyVotes(ballots, vts, push, infN)
         IN /\ allVotes' = vts
            /\ ballots' = bsN
            /\ pc' = "tally"
            /\ returned' = returned
    ELSE /\ pc' = "dispatch"
         /\ UNCHANGED <<allVotes, ballots, returned>>

\* a runner that calls tallyVotes without awaiting it and returns at once
JoinDispatchUnawaited(hdN, csN, fpsN, prevN, infN) ==
    IF \E k \in DOMAIN hdN : hdN[k] = "rejected"
    THEN /\ pc' = "failed"
         /\ UNCHANGED <<allVotes, ballots, returned>>
    ELSE IF \A k \in DOMAIN hdN : hdN[k] = "resolved"
    THEN LET vts == concatVotes(csN, fpsN, prevN, 1)
             bsN == tallyVotes(ballots, vts, push, infN)
         IN /\ allVotes' = vts
            /\ ballots' = bsN
            /\ pc' = "done"
            /\ returned' = [value |-> fpsN]
    ELSE /\ pc' = "dispatch"
         /\ UNCHANGED <<allVotes, ballots, returned>>

\* await Promise.all(allFps.map(handleDiffs)), await tallyVotes, return allFps
JoinDispatch(hdN, csN, fpsN, prevN, infN) ==
    IF \E k \in DOMAIN hdN : hdN[k] = "rejected"
    THEN /\ pc' = "failed"
         /\ UNCHANGED <<allVotes, ballots, returned>>
    ELSE IF \A k \in DOMAIN hdN : hdN[k] = "resolved"
    THEN LET vts == concatVotes(csN, fpsN, prevN, 1)
             bsN == tallyVotes(ballots, vts, push, infN)
             waits == \E h \in DOMAIN bsN : bsN[h].st = "pending"
         IN /\ allVotes' = vts
            /\ ballots' = bsN
            /\ pc' = IF waits THEN "tally" ELSE "done"
            /\ returned' = IF waits THEN returned ELSE [value |-> fpsN]
    ELSE /\ pc' = "dispatch"
         /\ UNCHANGED <<allVotes, ballots, returned>>

(***************************************************************************)
(* fingerprintRunner, step by step.                                        *)
(***************************************************************************)
\* fingerprinters.map(x => x.extract(p)): every extract is called, in order,
\* unless the t-th one throws synchronously (t > 0), which ends the map
extractAll(ex, t) ==
    [a \in DOMAIN ex |->
        IF t = 0 \/ a <= t
        THEN [n |-> ex[a].n + 1, st |-> IF a = t THEN "threw" ELSE "pending",
              val |-> NoValue]
        ELSE ex[a]]

\* the runner is invoked for a push and awaits missingInfo(i)
StartPush(p) ==
    /\ pc = "idle"
    /\ pc' = "info"
    /\ push' = p
    /\ UNCHANGED <<history, info, previous, ext, allFps, events, hd, calls, allVotes,
                   ballots, returned, fails>>

\* the GetPushDetails query fails, or its result lacks the provider or the
\* channel: missingInfo rejects and so does the runner
MissingInfoRejects ==
    /\ pc = "info"
    /\ fails < MaxFail
    /\ pc' = "failed"
    /\ fails' = fails + 1
    /\ UNCHANGED <<history, push, info, previous, ext, allFps, events, hd, calls,
                   allVotes, ballots, returned>>

\* missingInfo resolves and the push has a before commit: the runner awaits
\* lastFingerprints
MissingInfoResolvesBefore ==
    /\ pc = "info"
    /\ Truthy(push.before)
    /\ info' = PushDetails(push)
    /\ pc' = "last"
    /\ UNCHANGED <<history, push, previous, ext, allFps, events, hd, calls, allVotes,
                   ballots, returned, fails>>

\* missingInfo resolves and the push has no before commit: previous stays {}
\* and the runner goes on to call the extracts
MissingInfoResolvesNoBefore(t) ==
    /\ pc = "info"
    /\ ~Truthy(push.before)
    /\ t # 0 => fails < MaxFail
    /\ info' = PushDetails(push)
    /\ previous' = EmptyRecord
    /\ ext' = extractAll(ext, t)
    /\ pc' = IF t # 0 THEN "failed" ELSE "extract"
    /\ fails' = IF t # 0 THEN fails + 1 ELSE fails
    /\ UNCHANGED <<history, push, allFps, events, hd, calls, allVotes, ballots, returned>>

\* the GetAllFpsOnSha query fails (why = "failed"), or it holds no commit for
\* the sha (why = "noCommit": results.Commit is empty and results.Commit[0]
\* .analysis is a TypeError): lastFingerprints rejects, and the runner with it
LastFingerprintsRejects(why) ==
    /\ pc = "last"
    /\ fails < MaxFail
    /\ history' = why
    /\ pc' = "failed"
    /\ fails' = fails + 1
    /\ UNCHANGED <<push, info, previous, ext, allFps, events, hd, calls,
                   allVotes, ballots, returned>>

\* lastFingerprints resolves with the record of the before commit's
\* fingerprints; the runner goes on to call the extracts
LastFingerprintsResolves(m, t) ==
    /\ pc = "last"
    /\ t # 0 => fails < MaxFail
    /\ history' = "commit"
    /\ previous' = m
    /\ ext' = extractAll(ext, t)
    /\ pc' = IF t # 0 THEN "failed" ELSE "extract"
    /\ fails' = IF t # 0 THEN fails + 1 ELSE fails
    /\ UNCHANGED <<push, info, allFps, events, hd, calls, allVotes, ballots,
                   returned>>

\* the promise of one extract rejects: Promise.all rejects, and the runner with it
ExtractRejects(a) ==
    /\ ext[a].st = "pending"
    /\ fails < MaxFail
    /\ ext' = [ext EXCEPT ![a].st = "rejected"]
    /\ pc' = IF pc = "extract" THEN "failed" ELSE pc
    /\ fails' = fails + 1
    /\ UNCHANGED <<history, push, info, previous, allFps, events, hd, calls, allVotes,
                   ballots, returned>>

\* the promise of one extract resolves after the runner has already failed:
\* nobody reads its value
ExtractResolvesLate(a) ==
    /\ ext[a].st = "pending"
    /\ pc # "extract"
    /\ ext' = [ext EXCEPT ![a].st = "resolved"]
    /\ UNCHANGED <<history, pc, push, info, previous, allFps, events, hd, calls, allVotes,
                   ballots, returned, fails>>

\* the fingerprints handleDiffs is started for, the callbacks each start
\* invokes (thr[k] > 0: the thr[k]-th callback of fingerprint k throws)
startHandleDiffs(fps, prev, inf, p, thr) ==
    [c \in (1..Len(fps)) \X (1..Len(Handlers)) \X Kinds |->
        LET k == c[1]
            from == prev[fps[k].name]
            empty == [cc \in {c} |-> NoCall]
        IN invokeAll(empty, k, firstKind(fps[k], from), firstList(fps[k], from),
                     thr[k], makeDiff(fps[k], from, inf, p))[c]]

RECURSIVE sizeOfAll(_, _)
sizeOfAll(ex, a) ==
    IF a > Len(ex) THEN 0 ELSE SizeOf(ex[a].val) + sizeOfAll(ex, a + 1)

\* which callback of each fingerprint throws synchronously when handleDiffs
\* is started for the fingerprints fps (0: none), with at most n throwing
throwChoices(fps, prev, n) ==
    { thr \in [1..Len(fps) -> 0..Len(Handlers)] :
        /\ \A k \in 1..Len(fps) : thr[k] <= Len(firstList(fps[k], prev[fps[k].name]))
        /\ Cardinality({k \in 1..Len(fps) : thr[k] # 0}) <= n }

\* the promise of one extract resolves with v, and others are still pending
ExtractResolves(a, v) ==
    /\ ext[a].st = "pending"
    /\ pc = "extract"
    /\ \E b \in DOMAIN ext : b # a /\ ext[b].st # "resolved"
    /\ sizeOfAll(ext, 1) + SizeOf(v) <= MaxFps
    /\ ext' = [ext EXCEPT ![a].st = "resolved", ![a].val = v]
    /\ UNCHANGED <<history, pc, push, info, previous, allFps, events, hd, calls, allVotes,
                   ballots, returned, fails>>

\* the promise of the last extract resolves with v and Promise.all resolves:
\* the results are flattened into allFps, one custom event per fingerprint is
\* handed to the message client, and handleDiffs is called for every
\* fingerprint, each call running up to its first await.
ExtractResolvesLast(a, v) ==
    /\ ext[a].st = "pending"
    /\ pc = "extract"
    /\ \A b \in DOMAIN ext : b # a => ext[b].st = "resolved"
    /\ sizeOfAll(ext, 1) + SizeOf(v) <= MaxFps
    /\ LET exN == [ext EXCEPT ![a].st = "resolved", ![a].val = v]
           fps == reduceFps([b \in DOMAIN exN |-> exN[b].val], <<>>)
       IN \E thr \in throwChoices(fps, previous, MaxFail - fails) :
            LET thrown == Cardinality({k \in DOMAIN thr : thr[k] # 0})
                hdN == [k \in 1..Len(fps) |->
                          hdAfterInvoke(firstKind(fps[k], previous[fps[k].name]),
                                        firstList(fps[k], previous[fps[k].name]),
                                        thr[k])]
                csN == startHandleDiffs(fps, previous, info, push, thr)
            IN /\ ext' = [b \in DOMAIN exN |-> [exN[b] EXCEPT !.val = NoValue]]
               /\ allFps' = fps
               /\ events' = [k \in 1..Len(fps) |-> customEvent(fps[k], push)]
               /\ hd' = hdN
               /\ calls' = csN
               /\ fails' = fails + thrown
               /\ JoinDispatch(hdN, csN, fps, previous, info)
    /\ UNCHANGED <<history, push, info, previous>>

\* the promise a diffHandler or handler returned for fingerprint k rejects:
\* the Promise.all that awaits it rejects, and handleDiffs for k with it
CallRejects(k, h, kind) ==
    /\ <<k, h, kind>> \in DOMAIN calls
    /\ calls[<<k, h, kind>>].st = "pending"
    /\ fails < MaxFail
    /\ LET csN == [calls EXCEPT ![<<k, h, kind>>].st = "rejected"]
           hdN == [hd EXCEPT ![k] = IF hd[k] = kind THEN "rejected" ELSE hd[k]]
       IN /\ calls' = csN
          /\ hd' = hdN
          /\ fails' = fails + 1
          /\ IF pc = "dispatch"
             THEN JoinDispatch(hdN, csN, allFps, previous, info)
             ELSE UNCHANGED <<pc, allVotes, ballots, returned>>
    /\ UNCHANGED <<history, push, info, previous, ext, allFps, events>>

\* the promise a diffHandler or handler returned for fingerprint k resolves
\* with a vote.  When it is the last diffHandler of k, handleDiffs goes on to
\* invoke the handlers (t > 0: the t-th of them throws); when it is the last
\* handler of k, handleDiffs resolves with the votes of k.
CallResolves(k, h, kind, t) ==
    /\ <<k, h, kind>> \in DOMAIN calls
    /\ calls[<<k, h, kind>>].st = "pending"
    /\ LET fp == allFps[k]
           from == previous[fp.name]
           cs1 == [calls EXCEPT ![<<k, h, kind>>].st = "resolved",
                                ![<<k, h, kind>>].vote = Vote(k, h, kind)]
           list == IF kind = "diffHandler" THEN diffHandlersFor(fp) ELSE handlersFor(fp)
           last == /\ hd[k] = kind
                   /\ \A j \in 1..Len(list) : cs1[<<k, list[j], kind>>].st = "resolved"
           goesOn == last /\ kind = "diffHandler"
           csN == IF goesOn
                  THEN invokeAll(cs1, k, "handler", handlersFor(fp), t,
                                 makeDiff(fp, from, info, push))
                  ELSE cs1
           hdN == [hd EXCEPT ![k] =
                      IF goesOn THEN hdAfterInvoke("handler", handlersFor(fp), t)
                      ELSE IF last THEN "resolved"
                      ELSE hd[k]]
       IN /\ IF goesOn THEN t <= Len(handlersFor(fp)) ELSE t = 0
          /\ t # 0 => fails < MaxFail
          /\ calls' = csN
          /\ hd' = hdN
          /\ fails' = IF t # 0 THEN fails + 1 ELSE fails
          /\ IF pc = "dispatch"
             THEN JoinDispatch(hdN, csN, allFps, previous, info)
             ELSE UNCHANGED <<pc, allVotes, ballots, returned>>
    /\ UNCHANGED <<history, push, info, previous, ext, allFps, events>>

\* a runner that calls tallyVotes without awaiting it: a failing ballot is an
\* unhandled rejection and the runner goes on
BallotRejectsUnawaited(h) ==
    /\ ballots[h].st = "pending"
    /\ fails < MaxFail
    /\ ballots' = [ballots EXCEPT ![h].st = "rejected"]
    /\ fails' = fails + 1
    /\ UNCHANGED <<history, pc, push, info, previous, ext, allFps, events, hd, calls,
                   allVotes, returned>>

\* a ballot throws or its promise rejects: the Promise.all of tallyVotes
\* rejects, the runner awaits it and rejects too
BallotRejects(h) ==
    /\ ballots[h].st = "pending"
    /\ fails < MaxFail
    /\ ballots' = [ballots EXCEPT ![h].st = "rejected"]
    /\ pc' = IF pc = "tally" THEN "failed" ELSE pc
    /\ fails' = fails + 1
    /\ UNCHANGED <<history, push, info, previous, ext, allFps, events, hd, calls,
                   allVotes, returned>>

\* the promise of a ballot resolves; after the last one tallyVotes resolves
\* and the runner returns allFps
BallotResolves(h) ==
    /\ ballots[h].st = "pending"
    /\ LET bsN == [ballots EXCEPT ![h].st = "resolved"]
           done == /\ pc = "tally"
                   /\ \A g \in DOMAIN bsN : Handlers[g].ballot => bsN[g].st = "resolved"
       IN /\ ballots' = bsN
          /\ pc' = IF done THEN "done" ELSE pc
          /\ returned' = IF done THEN [value |-> allFps] ELSE returned
    /\ UNCHANGED <<history, push, info, previous, ext, allFps, events, hd, calls,
                   allVotes, fails>>

\* the runner's promise has settled; the goal invokes the runner for the
\* next push with fresh locals
NextPush ==
    /\ pc \in {"done", "failed"}
    /\ pc' = "idle"
    /\ push' = NoPush
    /\ info' = Undefined
    /\ previous' = EmptyRecord
    /\ ext' = [a \in 1..Len(Fingerprinters) |-> NoExtract]
    /\ allFps' = <<>>
    /\ events' = <<>>
    /\ hd' = <<>>
    /\ calls' = <<>>
    /\ allVotes' = <<>>
    /\ ballots' = [h \in 1..Len(Handlers) |-> NoBallot]
    /\ returned' = Undefined
    /\ fails' = 0
    /\ history' = "unread"

Next ==
    \/ (\E p \in Pushes : StartPush(p)) /\ UNCHANGED notRunner
    \/ MissingInfoRejects /\ UNCHANGED notRunner
    \/ MissingInfoResolvesBefore /\ UNCHANGED notRunner
    \/ (\E t \in 0..Len(Fingerprinters) : MissingInfoResolvesNoBefore(t))
          /\ UNCHANGED notRunner
    \/ (\E why \in HistoryFailures : LastFingerprintsRejects(why)) /\ UNCHANGED notRunner
    \/ (\E m \in PreviousMaps, t \in 0..Len(Fingerprinters) : LastFingerprintsResolves(m, t))
          /\ UNCHANGED notRunner
    \/ (\E a \in 1..Len(Fingerprinters) : ExtractRejects(a)) /\ UNCHANGED notRunner
    \/ (\E a \in 1..Len(Fingerprinters) : ExtractResolvesLate(a)) /\ UNCHANGED notRunner
    \/ (\E a \in 1..Len(Fingerprinters), v \in ExtractValues : ExtractResolves(a, v))
          /\ UNCHANGED notRunner
    \/ (\E a \in 1..Len(Fingerprinters), v \in ExtractValues : ExtractResolvesLast(a, v))
          /\ UNCHANGED notRunner
    \/ (\E k \in 1..MaxFps, h \in 1..Len(Handlers), kind \in Kinds : CallRejects(k, h, kind))
          /\ UNCHANGED notRunner
    \/ (\E k \in 1..MaxFps, h \in 1..Len(Handlers), kind \in Kinds, t \in 0..Len(Handlers) :
              CallResolves(k, h, kind, t))
          /\ UNCHANGED notRunner
    \/ (\E h \in 1..Len(Handlers) : BallotRejects(h)) /\ UNCHANGED notRunner
    \/ (\E h \in 1..Len(Handlers) : BallotResolves(h)) /\ UNCHANGED notRunner
    \/ NextPush /\ UNCHANGED notRunner

Spec == Init /\ [][Next]_vars

(***************************************************************************)
(* Vocabulary of the properties.                                           *)
(***************************************************************************)
\* the fingerprints handleDiffs has been called for
Dispatched == DOMAIN hd

\* the previous commit's fingerprint with the name of fingerprint k
fromOf(k) == previous[allFps[k].name]

\* how often a callback of handler h was invoked for fingerprint k
invocations(k, h, kind) == calls[<<k, h, kind>>].n

\* handler h is registered with this callback and its selector accepts k
matches(k, h, kind) ==
    /\ IF kind = "diffHandler" THEN Handlers[h].diffHandler ELSE Handlers[h].handler
    /\ allFps[k].name \in Handlers[h].selector

Failed == {"rejected", "threw"}

CallFailed == \E c \in DOMAIN calls : calls[c].st \in Failed
ExtractFailed == \E a \in DOMAIN ext : ext[a].st \in Failed
BallotFailed == \E h \in DOMAIN ballots : ballots[h].st \in Failed

\* the runner's promise has settled
PushEnded == pc \in {"done", "failed"}

\* the runner got as far as calling the extracts: the push coordinates and
\* the previous fingerprints were read
ExtractionStarted == \E a \in DOMAIN ext : ext[a].n > 0

\* the votes the callbacks have returned so far
ReturnedVotes == { calls[c].vote : c \in { d \in DOMAIN calls : calls[d].st = "resolved" } }

\* a ballot was handed exactly the votes the callbacks returned
GotAllVotes(h) ==
    /\ Len(ballots[h].votes) = Cardinality(ReturnedVotes)
    /\ { ballots[h].votes[j] : j \in 1..Len(ballots[h].votes) } = ReturnedVotes

(***************************************************************************)
(* C1.  For every extracted fingerprint whose name the previous commit     *)
(* does not have, no diffHandler is invoked and the handler callback of    *)
(* every registered handler whose selector matches is invoked exactly      *)
(* once (and of no other handler).                                         *)
(***************************************************************************)
C1_NewFingerprintHandlersOnce ==
    \A k \in Dispatched :
        ~Truthy(fromOf(k)) =>
            \A h \in 1..Len(Handlers) :
                /\ invocations(k, h, "diffHandler") = 0
                /\ invocations(k, h, "handler") = IF matches(k, h, "handler") THEN 1 ELSE 0

(***************************************************************************)
(* C2.  The diffHandler of handler h is invoked for fingerprint k exactly  *)
(* once when the previous commit has a fingerprint of that name with a     *)
(* different sha and h has a diffHandler and selects k, with a Diff whose  *)
(* from is the previous and whose to is the current fingerprint; in every  *)
(* other circumstance it is not invoked.                                   *)
(***************************************************************************)
C2_DiffHandlersExactlyWhenChanged ==
    \A k \in Dispatched : \A h \in 1..Len(Handlers) :
        IF /\ Truthy(fromOf(k))
           /\ fromOf(k).sha # allFps[k].sha
           /\ matches(k, h, "diffHandler")
        THEN /\ invocations(k, h, "diffHandler") = 1
             /\ calls[<<k, h, "diffHandler">>].diff.from = fromOf(k)
             /\ calls[<<k, h, "diffHandler">>].diff.to = allFps[k]
        ELSE invocations(k, h, "diffHandler") = 0

(***************************************************************************)
(* C3.  For a fingerprint whose sha equals the sha of the previous         *)
(* commit's fingerprint of that name, no diffHandler is invoked, in        *)
(* whatever push of the sequence, while the unconditional handlers that    *)
(* select it still run, once each.                                         *)
(***************************************************************************)
C3_EqualShaNoDiffHandler ==
    \A k \in Dispatched :
        (Truthy(fromOf(k)) /\ fromOf(k).sha = allFps[k].sha) =>
            \A h \in 1..Len(Handlers) :
                /\ invocations(k, h, "diffHandler") = 0
                /\ invocations(k, h, "handler") = IF matches(k, h, "handler") THEN 1 ELSE 0

(***************************************************************************)
(* C4.  In a push without a before commit whose coordinates were read,     *)
(* previous is empty, every Diff handed to a callback has no from, no      *)
(* diffHandler is invoked, every matching unconditional handler runs, and  *)
(* when the runner has settled the ballots have been invoked.              *)
(***************************************************************************)
C4_NoBeforeCommit ==
    (pc # "idle" /\ ~Truthy(push.before) /\ Truthy(info)) =>
        /\ previous = EmptyRecord
        /\ \A k \in Dispatched : \A h \in 1..Len(Handlers) :
              /\ invocations(k, h, "diffHandler") = 0
              /\ invocations(k, h, "handler") = IF matches(k, h, "handler") THEN 1 ELSE 0
              /\ invocations(k, h, "handler") = 1 =>
                    ~Truthy(calls[<<k, h, "handler">>].diff.from)
        /\ PushEnded =>
              \A h \in 1..Len(Handlers) : Handlers[h].ballot => ballots[h].n = 1

(***************************************************************************)
(* C5.  A diffHandler or handler that throws or rejects does not stop the  *)
(* push: the runner does not fail because of it, and once the dispatch is  *)
(* over every ballot has been handed exactly the votes that the other      *)
(* callbacks returned.                                                     *)
(***************************************************************************)
C5_HandlerFailureIsolated ==
    CallFailed =>
        /\ pc = "failed" => BallotFailed
        /\ PushEnded =>
              \A h \in 1..Len(Handlers) :
                  Handlers[h].ballot => (ballots[h].n = 1 /\ GotAllVotes(h))

(***************************************************************************)
(* C6.  An extract that throws or rejects does not stop the push: the      *)
(* runner does not fail because of it, and the fingerprints of the other   *)
(* Aspects are dispatched and returned.                                    *)
(***************************************************************************)
C6_ExtractFailureContained ==
    (ExtractFailed /\ ~CallFailed /\ ~BallotFailed) =>
        /\ pc # "failed"
        /\ pc = "done" => returned = [value |-> allFps]

(***************************************************************************)
(* C7.  A push whose coordinates and previous fingerprints were read does  *)
(* not end before the tally: the runner's promise is rejected only by a    *)
(* failing ballot, a push that ended has had every ballot invoked and,     *)
(* unless a ballot failed, has returned the extracted fingerprints; every  *)
(* extract is invoked exactly once.                                        *)
(***************************************************************************)
C7_EveryPushTallied ==
    (ExtractionStarted /\ PushEnded) =>
        /\ \A h \in 1..Len(Handlers) : Handlers[h].ballot => ballots[h].n = 1
        /\ pc = "failed" => BallotFailed
        /\ pc = "done" => returned = [value |-> allFps]
        /\ \A a \in DOMAIN ext : ext[a].n = 1

C9_TallyAfterAllDispatch ==
    (\E h \in DOMAIN ballots : ballots[h].n > 0) =>
        /\ Dispatched = 1..Len(allFps)
        /\ \A k \in Dispatched :
              /\ hd[k] = "resolved"
              /\ \A h \in 1..Len(Handlers) :
                    /\ calls[<<k, h, "handler">>].st =
                          IF matches(k, h, "handler") THEN "resolved" ELSE "none"
                    /\ calls[<<k, h, "diffHandler">>].st =
                          IF /\ Truthy(fromOf(k))
                             /\ fromOf(k).sha # allFps[k].sha
                             /\ matches(k, h, "diffHandler")
                          THEN "resolved" ELSE "none"

\* the ballots are running over the votes of two fingerprints, one of them changed
C9_Witness ==
    /\ pc = "tally"
    /\ Len(allFps) = 2
    /\ \E k \in Dispatched, h \in 1..Len(Handlers) :
          calls[<<k, h, "diffHandler">>].st = "resolved"
    /\ \E k \in Dispatched : ~Truthy(fromOf(k))

(***************************************************************************)
(* C10.  In every push whose coordinates and previous fingerprints were    *)
(* read, every handler with a ballot has it invoked exactly once, with     *)
(* the votes of all callbacks for all fingerprints, the coordinates of the *)
(* push and the channel; a handler without a ballot is skipped.            *)
(***************************************************************************)
C10_BallotsOncePerPush ==
    /\ \A h \in 1..Len(Handlers) :
          /\ ballots[h].n <= 1
          /\ ~Handlers[h].ballot => ballots[h].n = 0
          /\ ballots[h].n = 1 =>
                /\ GotAllVotes(h)
                /\ ballots[h].coord =
                      [owner |-> push.owner, repo |-> push.repo, sha |-> push.after.sha,
                       branch |-> push.branch, providerId |-> PushDetails(push).providerId]
                /\ ballots[h].channel = PushDetails(push).channel
    /\ (ExtractionStarted /\ PushEnded) =>
          \A h \in 1..Len(Handlers) : Handlers[h].ballot => ballots[h].n = 1


(***************************************************************************)
(* The dispatch as a function of the handler list: what the ballots are    *)
(* handed when the handlers are registered in the order hs (a sequence of  *)
(* handler numbers), for the fingerprints fps and the previous record.     *)
(***************************************************************************)
\* the orders the handlers can be registered in
HandlerOrders ==
    { hs \in [1..Len(Handlers) -> 1..Len(Handlers)] :
        \A i, j \in 1..Len(Handlers) : i # j => hs[i] # hs[j] }

\* a handleDiffs that asks only the first matching handler (find for filter)
handleDiffsFirstMatch(hs, k, fp, prev) ==
    LET dl == SelectSeq(hs, LAMBDA h : Handlers[h].diffHandler /\ selects(h, fp))
        cl == SelectSeq(hs, LAMBDA h : Handlers[h].handler /\ selects(h, fp))
        diffVotes == IF shaChanged(fp, prev) /\ dl # <<>>
                     THEN <<Vote(k, dl[1], "diffHandler")>> ELSE <<>>
        currentVotes == IF cl # <<>> THEN <<Vote(k, cl[1], "handler")>> ELSE <<>>
    IN diffVotes \o currentVotes

\* the votes handleDiffs resolves with for the k-th fingerprint when every
\* callback resolves: the diffHandlers' votes, then the handlers', each in
\* the order of the handler list
handleDiffsIn(hs, k, fp, prev) ==
    LET dl == SelectSeq(hs, LAMBDA h : Handlers[h].diffHandler /\ selects(h, fp))
        cl == SelectSeq(hs, LAMBDA h : Handlers[h].handler /\ selects(h, fp))
        diffVotes == IF shaChanged(fp, prev)
                     THEN [j \in 1..Len(dl) |-> Vote(k, dl[j], "diffHandler")]
                     ELSE <<>>
        currentVotes == [j \in 1..Len(cl) |-> Vote(k, cl[j], "handler")]
    IN diffVotes \o currentVotes

\* (await Promise.all(allFps.map(fp => handleDiffs(...)))).reduce(concat)
RECURSIVE allVotesIn(_, _, _, _)
allVotesIn(hs, fps, prev, k) ==
    IF k > Len(fps) THEN <<>>
    ELSE handleDiffsIn(hs, k, fps[k], prev[fps[k].name]) \o allVotesIn(hs, fps, prev, k + 1)

\* what tallyVotes hands to the ballots: the votes, or nothing at all when a
\* callback of the push is one of those that throw or reject (bad)
votesTallied(hs, fps, prev, bad) ==
    LET vts == allVotesIn(hs, fps, prev, 1)
    IN IF \E j \in 1..Len(vts) : <<vts[j].handler, vts[j].callback>> \in bad
       THEN [tallied |-> FALSE]
       ELSE [tallied |-> TRUE, votes |-> vts]

DispatchInputs ==
    [fn : {"dispatch"}, hs : HandlerOrders, fps : SeqsUpTo(FP, MaxFps),
     previous : PreviousMaps,
     bad : { b \in SUBSET ((1..Len(Handlers)) \X Kinds) : Cardinality(b) <= MaxFail }]

DispatchInit ==
    /\ RunnerInit
    /\ SnapOff
    /\ ConcOff
    /\ SendOff
    /\ XformOff
    /\ BatchOff
    /\ ProjOff
    /\ TargetsOff
    /\ CmdOff
    /\ AllOff
    /\ PubOff
    /\ EvtOff
    /\ DthOff
    /\ arg \in DispatchInputs
    /\ res = Undefined

\* the push is dispatched with the handlers in the order arg.hs
DispatchInOrder ==
    /\ arg.fn = "dispatch"
    /\ res = Undefined
    /\ res' = votesTallied(arg.hs, arg.fps, arg.previous, arg.bad)
    /\ UNCHANGED arg

DispatchNext == DispatchInOrder /\ UNCHANGED notPure

SpecDispatch == DispatchInit /\ [][DispatchNext]_vars

\* a sequence as a multiset: how often each element occurs
bagOf(seq) ==
    [v \in { seq[j] : j \in 1..Len(seq) } |-> Cardinality({ j \in 1..Len(seq) : seq[j] = v })]

(***************************************************************************)
(* C11.  For the same fingerprints and previous record, the ballots are    *)
(* handed the same multiset of votes whatever the order the handlers are   *)
(* registered in: the same as in the registration order 1, 2, 3.           *)
(***************************************************************************)
C11_DispatchOrderIndependent ==
    (res # Undefined /\ arg.fn = "dispatch") =>
        LET ref == votesTallied(HandlerIdx, arg.fps, arg.previous, arg.bad)
        IN /\ res.tallied = ref.tallied
           /\ res.tallied => bagOf(res.votes) = bagOf(ref.votes)

\* a permuted handler list has delivered votes, in another order of the list
C11_Witness ==
    /\ res # Undefined
    /\ arg.fn = "dispatch"
    /\ arg.hs # HandlerIdx
    /\ res.tallied
    /\ Len(res.votes) > 2
    /\ res.votes # votesTallied(HandlerIdx, arg.fps, arg.previous, arg.bad).votes

(***************************************************************************)
(* The flattening of the extraction results as a function of what the      *)
(* extracts resolved with.                                                 *)
(***************************************************************************)
\* what an extract can resolve with at run time: besides a fingerprint, an
\* array of fingerprints and a falsy value, a truthy value that is neither
\* (a string, a number, any other object)
ExtractResults ==
    ExtractValues \cup { [kind |-> "other", fp |-> [weird |-> TRUE]] }

FlattenInit ==
    /\ RunnerInit
    /\ SnapOff
    /\ ConcOff
    /\ SendOff
    /\ XformOff
    /\ BatchOff
    /\ ProjOff
    /\ TargetsOff
    /\ CmdOff
    /\ AllOff
    /\ PubOff
    /\ EvtOff
    /\ DthOff
    /\ arg \in [fn : {"flatten"}, results : [1..Len(Fingerprinters) -> ExtractResults]]
    /\ res = Undefined

\* const allFps = (await Promise.all(...)).reduce<FP[]>(..., [])
Flatten ==
    /\ arg.fn = "flatten"
    /\ res = Undefined
    /\ res' = [allFps |-> reduceFps(arg.results, <<>>)]
    /\ UNCHANGED arg

FlattenNext == Flatten /\ UNCHANGED notPure

SpecFlatten == FlattenInit /\ [][FlattenNext]_vars

(***************************************************************************)
(* C12.  The flattened list is the concatenation, in Aspect order, of what *)
(* each result contributes: a fingerprint itself, an array its elements,   *)
(* and anything else nothing.                                              *)
(***************************************************************************)
C12_FlattenExact ==
    (res # Undefined /\ arg.fn = "flatten") =>
        LET contributes(v) == IF v.kind = "fp" THEN <<v.fp>>
                              ELSE IF v.kind = "array" THEN v.fps
                              ELSE <<>>
        IN res.allFps = contributes(arg.results[1]) \o contributes(arg.results[2])

(***************************************************************************)
(* C13.  handleDiffs is called once for each extracted fingerprint and for *)
(* nothing else, and the Diff every callback of the k-th fingerprint is    *)
(* handed has that fingerprint as its to and the previous commit's         *)
(* fingerprint of that name, or nothing, as its from; a name only the      *)
(* previous commit has gets no Diff and no callback.                       *)
(***************************************************************************)
C13_OneDiffPerCurrentFingerprint ==
    /\ Dispatched = 1..Len(allFps)
    /\ \A c \in DOMAIN calls :
          calls[c].n > 0 =>
              /\ c[1] \in Dispatched
              /\ Truthy(calls[c].diff.to)
              /\ calls[c].diff.to = allFps[c[1]]
              /\ calls[c].diff.from = previous[allFps[c[1]].name]
    /\ \A n \in Names :
          (\A k \in 1..Len(allFps) : allFps[k].name # n) =>
              \A c \in DOMAIN calls : calls[c].n > 0 => calls[c].diff.to.name # n

\* the previous commit has a fingerprint b the push no longer extracts, and
\* the callbacks of the extracted fingerprint a have run
C13_Witness ==
    /\ Truthy(previous["b"])
    /\ Truthy(previous["a"])
    /\ Len(allFps) = 1
    /\ allFps[1].name = "a"
    /\ pc = "tally"
    /\ \E c \in DOMAIN calls : calls[c].n > 0 /\ Truthy(calls[c].diff.from)

(***************************************************************************)
(* C14.  When the history store holds nothing for the before commit (no    *)
(* commit record, or a commit without fingerprints) the push goes on with  *)
(* no previous fingerprints: the runner does not fail unless an extract,   *)
(* a callback or a ballot fails, no Diff has a from, and a push that has   *)
(* ended without such a failure has had its ballots invoked.               *)
(***************************************************************************)
C14_EmptyHistoryIsNoPrevious ==
    (history = "noCommit" \/ (history = "commit" /\ previous = EmptyRecord)) =>
        /\ previous = EmptyRecord
        /\ \A c \in DOMAIN calls : calls[c].n > 0 => ~Truthy(calls[c].diff.from)
        /\ (~ExtractFailed /\ ~CallFailed /\ ~BallotFailed) =>
              /\ pc # "failed"
              /\ pc = "done" =>
                    \A h \in 1..Len(Handlers) : Handlers[h].ballot => ballots[h].n = 1

(***************************************************************************)
(* The lookups of one push against the target store, which the set-target  *)
(* and delete-target commands change at any time.  The push reads the      *)
(* previous fingerprints and the targets once and puts them into its       *)
(* Diffs; the target handler checks what its Diff carries.                 *)
(***************************************************************************)
\* a handler that asks the target store again when it is invoked
checkedTargetRequeried(diff, st) == st[diff.name]

\* DefaultTargetDiffHandler: checkFingerprintTarget(..., async () => diff.targets)
checkedTarget(diff, st) == diff.targets

\* the push reads the previous fingerprints (when it has a before commit) and
\* the targets, and builds one Diff per name from them
SnapshotPush(hasBefore, m) ==
    /\ snap.pc = "idle"
    /\ ~hasBefore => m = EmptyRecord
    /\ snap' = [pc |-> "dispatch", previous |-> m, targets |-> store,
                reads |-> IF hasBefore THEN 1 ELSE 0,
                diffs |-> [n \in Names |-> [name |-> n, from |-> m[n], targets |-> store[n]]]]
    /\ UNCHANGED <<store, seen>>

\* SetTargetFingerprint: setFPTarget(graphClient)(fp.type, fp.name, fp)
SetTarget(n, sha) ==
    /\ store' = [store EXCEPT ![n] = sha]
    /\ UNCHANGED <<snap, seen>>

\* DeleteTargetFingerprint: deleteFPTarget(graphClient)(type, name)
DeleteTarget(n) ==
    /\ store' = [store EXCEPT ![n] = "none"]
    /\ UNCHANGED <<snap, seen>>

\* a handler of the push is invoked with the Diff of name n
HandlerChecks(n) ==
    /\ snap.pc = "dispatch"
    /\ Len(seen) < MaxChecks
    /\ seen' = Append(seen, [name |-> n, from |-> snap.diffs[n].from,
                             target |-> checkedTarget(snap.diffs[n], store)])
    /\ UNCHANGED <<store, snap>>

\* the push is over
SnapshotEnds ==
    /\ snap.pc = "dispatch"
    /\ snap' = [pc |-> "idle"]
    /\ seen' = <<>>
    /\ UNCHANGED store

SnapNext ==
    \/ (\E b \in BOOLEAN, m \in PreviousMaps : SnapshotPush(b, m)) /\ UNCHANGED notSnap
    \/ (\E n \in Names, sha \in Shas : SetTarget(n, sha)) /\ UNCHANGED notSnap
    \/ (\E n \in Names : DeleteTarget(n)) /\ UNCHANGED notSnap
    \/ (\E n \in Names : HandlerChecks(n)) /\ UNCHANGED notSnap
    \/ SnapshotEnds /\ UNCHANGED notSnap

SpecSnapshot == Init /\ [][SnapNext]_vars

(***************************************************************************)
(* C15.  The push has read the previous fingerprints at most once, before  *)
(* its handlers run, and every handler of the push was shown the from and  *)
(* the target the push read at its start, whatever the commands have done  *)
(* to the target store since.                                              *)
(***************************************************************************)
C15_HandlersSeeTheSnapshot ==
    snap.pc = "dispatch" =>
        /\ snap.reads <= 1
        /\ \A j \in 1..Len(seen) :
              /\ seen[j].from = snap.previous[seen[j].name]
              /\ seen[j].target = snap.targets[seen[j].name]

\* a command has changed the target of a name after the push read it, and a
\* handler of the push was still shown the target read at the start
C15_Witness ==
    /\ snap.pc = "dispatch"
    /\ Len(seen) = 2
    /\ seen[1].name = seen[2].name
    /\ store[seen[1].name] # snap.targets[seen[1].name]
    /\ seen[2].target # store[seen[2].name]
    /\ Truthy(seen[1].from)

(***************************************************************************)
(* Two pushes handled at the same time by one runner.  The runner is an    *)
(* async arrow function: info, previous, allFps and allVotes are locals of *)
(* each invocation, the Aspect and handler lists belong to the closure all *)
(* invocations share.  An invocation runs from await to await.             *)
(***************************************************************************)
\* a runner whose locals were declared outside the arrow function, in the
\* closure every invocation shares
frameShared(r) == 1

\* the locals an invocation works on: its own
frameOf(r) == r

\* what a push holds: the fingerprints its project yields and the previous
\* fingerprints of its before commit
RunInputs ==
    [fps : {<<>>} \cup { <<f>> : f \in FP } \cup { <<f, g>> : f \in {[name |-> "a", sha |-> "B"]}, g \in FP },
     previous : PreviousMaps]

\* the runner is invoked for a push; past missingInfo and lastFingerprints
\* it has set previous and has called the extracts
RunStarts(r, in) ==
    /\ runPc[r] = "idle"
    /\ runIn[r] = Undefined
    /\ runIn' = [runIn EXCEPT ![r] = in]
    /\ frames' = [frames EXCEPT ![frameOf(r)].previous = in.previous]
    /\ runPc' = [runPc EXCEPT ![r] = "extract"]
    /\ UNCHANGED <<runOut, lists>>

\* the extracts of the invocation have resolved: allFps is set and
\* handleDiffs is called for each fingerprint
RunExtracts(r) ==
    /\ runPc[r] = "extract"
    /\ frames' = [frames EXCEPT ![frameOf(r)].allFps = runIn[r].fps]
    /\ runPc' = [runPc EXCEPT ![r] = "dispatch"]
    /\ UNCHANGED <<runIn, runOut, lists>>

\* the handleDiffs calls of the invocation have settled: with all resolved
\* (ok) allVotes is set and tallyVotes invokes the ballots with it, otherwise
\* the invocation rejects
RunDispatches(r, ok) ==
    /\ runPc[r] = "dispatch"
    /\ LET f == frames[frameOf(r)]
           vts == allVotesIn(lists.handlers, f.allFps, f.previous, 1)
       IN IF ok
          THEN /\ frames' = [frames EXCEPT ![frameOf(r)].allVotes = vts]
               /\ runOut' = [runOut EXCEPT ![r] = [ballots |-> vts]]
               /\ runPc' = [runPc EXCEPT ![r] = "tally"]
          ELSE /\ runPc' = [runPc EXCEPT ![r] = "failed"]
               /\ UNCHANGED <<frames, runOut>>
    /\ UNCHANGED <<runIn, lists>>

\* the ballots of the invocation have resolved: it returns allFps
RunReturns(r) ==
    /\ runPc[r] = "tally"
    /\ runOut' = [runOut EXCEPT ![r] =
                     [ballots |-> runOut[r].ballots, returned |-> frames[frameOf(r)].allFps]]
    /\ runPc' = [runPc EXCEPT ![r] = "done"]
    /\ UNCHANGED <<runIn, frames, lists>>

ConcNext ==
    \/ (\E r \in Runs, in \in RunInputs : RunStarts(r, in)) /\ UNCHANGED notConc
    \/ (\E r \in Runs : RunExtracts(r)) /\ UNCHANGED notConc
    \/ (\E r \in Runs, ok \in BOOLEAN : RunDispatches(r, ok)) /\ UNCHANGED notConc
    \/ (\E r \in Runs : RunReturns(r)) /\ UNCHANGED notConc

SpecConcurrent == Init /\ [][ConcNext]_vars

(***************************************************************************)
(* C16.  Whatever the interleaving of two invocations, the ballots of an   *)
(* invocation are handed exactly the votes for its own push's fingerprints *)
(* and previous record, an invocation returns exactly its own push's       *)
(* fingerprints, and the Aspect and handler lists stay as registered.      *)
(***************************************************************************)
C16_ConcurrentPushesIsolated ==
    /\ lists = [fingerprinters |-> Fingerprinters, handlers |-> HandlerIdx]
    /\ \A r \in Runs :
          /\ runPc[r] \in {"tally", "done"} =>
                runOut[r].ballots = allVotesIn(HandlerIdx, runIn[r].fps, runIn[r].previous, 1)
          /\ runPc[r] = "done" => runOut[r].returned = runIn[r].fps

\* both invocations are done, having been under way together on pushes with
\* different fingerprints and different votes
C16_Witness ==
    /\ runPc = [r \in Runs |-> "done"]
    /\ runIn[1].fps # runIn[2].fps
    /\ runOut[1].ballots # runOut[2].ballots
    /\ runOut[1].ballots # <<>>
    /\ runOut[2].ballots # <<>>

(***************************************************************************)
(* sendFingerprintToAtomist: one RepoBranchIds query, then one             *)
(* AddFingerprints mutation for each partition of the fingerprints, all    *)
(* awaited through Promise.all inside a try whose catch logs.              *)
(***************************************************************************)
\* the largest number of partitions (fingerprint types) of one call
MaxParts == 4

\* what the RepoBranchIds query can give: the ids, a result without a Repo,
\* or a rejection
QueryOutcomes == {"ids", "noRepo", "rejected"}

\* a function body without the try: the failure leaves the function
sendUncaught(s, what) ==
    [s EXCEPT !.pc = "returned", !.threw = TRUE]

\* catch (ex) { logger.error(...) } followed by return true
sendCaught(s, what) ==
    [s EXCEPT !.pc = "returned", !.logged = Append(@, what), !.returned = "true"]

\* the function is called with fingerprints of n types and issues the query
SendStarts(n) ==
    /\ send.pc = "idle"
    /\ send' = [send EXCEPT !.pc = "query", !.queries = @ + 1, !.query = "pending",
                            !.mutations = [k \in 1..n |-> "unissued"]]

\* the query settles.  With the ids every partition's mutation is issued;
\* without a Repo the variables of a mutation cannot be built
\* (ids.Repo[0].branches) and the partition's callback throws before mutate
QuerySettles(out) ==
    /\ send.pc = "query"
    /\ LET n == Len(send.mutations)
       IN send' =
             CASE out = "rejected" -> sendCaught([send EXCEPT !.query = out], "query")
               [] out = "noRepo" /\ n > 0 -> sendCaught([send EXCEPT !.query = out], "ids")
               [] OTHER ->
                    [send EXCEPT !.pc = "mutating",
                                 !.query = out,
                                 !.mutations = [k \in 1..n |-> "pending"],
                                 !.issued = @ + n]

\* one mutation settles; it may do so after the function has returned
MutationSettles(k, out) ==
    /\ send.pc \in {"mutating", "returned"}
    /\ k \in 1..Len(send.mutations)
    /\ send.mutations[k] = "pending"
    /\ send' = [send EXCEPT !.mutations[k] = out]

\* Promise.all settles: rejected with the first rejection, resolved when
\* every mutation has resolved
SendSettles ==
    /\ send.pc = "mutating"
    /\ LET ms == { send.mutations[k] : k \in 1..Len(send.mutations) }
       IN \/ /\ "rejected" \in ms
             /\ send' = sendCaught(send, "mutation")
          \/ /\ ms \subseteq {"resolved"}
             /\ send' = [send EXCEPT !.pc = "returned", !.returned = "true"]

SendNext ==
    \/ (\E n \in 0..MaxParts : SendStarts(n)) /\ UNCHANGED notSend
    \/ (\E out \in QueryOutcomes : QuerySettles(out)) /\ UNCHANGED notSend
    \/ (\E k \in 1..MaxParts, out \in {"resolved", "rejected"} : MutationSettles(k, out))
          /\ UNCHANGED notSend
    \/ SendSettles /\ UNCHANGED notSend

SpecSend == Init /\ [][SendNext]_vars

(***************************************************************************)
(* C17.  sendFingerprintToAtomist never throws; once it is over it has     *)
(* returned true, and it has logged an error exactly when the query or a   *)
(* mutation it awaited failed; the query is issued once and each           *)
(* partition's mutation at most once.                                      *)
(***************************************************************************)
C17_SendIsFireAndForget ==
    /\ ~send.threw
    /\ send.queries <= 1
    /\ send.issued <= Len(send.mutations)
    /\ Len(send.logged) <= 1
    /\ send.pc = "returned" =>
          /\ send.returned = "true"
          /\ (send.logged # <<>>) <=>
                \/ send.query = "rejected"
                \/ send.query = "noRepo" /\ send.mutations # <<>>
                \/ \E k \in 1..Len(send.mutations) : send.mutations[k] = "rejected"

\* a call is over after one of several mutations was rejected while another
\* had resolved
C17_Witness ==
    /\ send.pc = "returned"
    /\ send.logged = <<"mutation">>
    /\ \E j, k \in 1..Len(send.mutations) :
          send.mutations[j] = "rejected" /\ send.mutations[k] = "resolved"

(***************************************************************************)
(* The sha of a fingerprint.  The file aspect parses the file's content    *)
(* and hashes the text JSON.stringify gives for the parsed value; the      *)
(* ClojureScript side hashes the edn value itself.  A JSON file is a run   *)
(* of key/value members in the order they are written, with or without     *)
(* white space between them.                                               *)
(***************************************************************************)
JsonKeys == {"x", "y"}
JsonValues == {"one", "two"}

\* the contents of JSON files: members with distinct keys, in written order
JsonFiles ==
    [members : { m \in SeqsUpTo(JsonKeys \X JsonValues, Cardinality(JsonKeys)) :
                    \A i, j \in 1..Len(m) : i # j => m[i][1] # m[j][1] },
     spaced : BOOLEAN]

\* JSON.parse: white space is gone; the object holds its members in the
\* order they were inserted, the order of the text
JSONparse(content) == content.members

\* JSON.stringify: the members in the object's own order, no white space
JSONstringify(obj) == [members |-> obj, spaced |-> FALSE]

\* sha256 of a text: equal texts, equal shas; different texts, different shas
sha256(text) == [sha256 |-> text]

\* createFileFingerprint: canonicalize is JSON.parse, the sha is taken of
\* JSON.stringify(canonicalized)
fileSha(content) == sha256(JSONstringify(JSONparse(content)))

\* consistentHash: js->clj makes a map of the object, edn-hash hashes a map
\* whatever the order of its entries
consistentHash(obj) == [uuid5 |-> { obj[i] : i \in 1..Len(obj) }]

\* two files hold the same record: the same members, in any order
sameRecord(a, b) ==
    { a.members[i] : i \in 1..Len(a.members) } = { b.members[i] : i \in 1..Len(b.members) }

ShaInit ==
    /\ RunnerInit
    /\ SnapOff
    /\ ConcOff
    /\ SendOff
    /\ XformOff
    /\ BatchOff
    /\ ProjOff
    /\ TargetsOff
    /\ CmdOff
    /\ AllOff
    /\ PubOff
    /\ EvtOff
    /\ DthOff
    /\ arg \in [fn : {"sha"}, a : JsonFiles, b : JsonFiles]
    /\ res = Undefined

\* the file aspect fingerprints both files, consistentHash hashes both values
ComputeShas ==
    /\ arg # Undefined
    /\ arg.fn = "sha"
    /\ res = Undefined
    /\ res' = [shaA |-> fileSha(arg.a), shaB |-> fileSha(arg.b),
               again |-> fileSha(arg.a),
               hashA |-> consistentHash(JSONparse(arg.a)),
               hashB |-> consistentHash(JSONparse(arg.b))]
    /\ UNCHANGED arg

ShaNext == ComputeShas /\ UNCHANGED notPure

SpecSha == ShaInit /\ [][ShaNext]_vars

(***************************************************************************)
(* C18.  The sha is a function of the content and does not depend on the   *)
(* order of the keys: the same file fingerprinted twice has one sha, and   *)
(* two JSON files that hold the same record have the same sha and the same *)
(* consistentHash.                                                         *)
(***************************************************************************)
C18_ShaKeyOrderIndependent ==
    (arg # Undefined /\ arg.fn = "sha" /\ res # Undefined) =>
        /\ res.again = res.shaA
        /\ sameRecord(arg.a, arg.b) =>
              /\ res.shaA = res.shaB
              /\ res.hashA = res.hashB

(***************************************************************************)
(* Applying a target fingerprint: runAllFingerprintAppliers tells the      *)
(* channel, reads the target, has pushFingerprint find the Aspect of the   *)
(* fingerprint and call its apply, and reports what became of the project. *)
(***************************************************************************)
\* the largest number of registered Aspects
MaxAspects == 2

\* registered Aspects: what they select on and whether they have an apply
AspectLists == SeqsUpTo([name : AspectTypes, apply : BOOLEAN], MaxAspects)

\* aspectOf: the place of the first registered Aspect that selects the
\* fingerprint's type, 0 when there is none
aspectOf(type, aspects) ==
    IF \E i \in 1..Len(aspects) : aspects[i].name = type
    THEN CHOOSE i \in 1..Len(aspects) :
            /\ aspects[i].name = type
            /\ \A j \in 1..(i - 1) : aspects[j].name # type
    ELSE 0

\* a pushFingerprint that calls the apply of every Aspect selecting the type
toApplyEveryMatch(type, aspects) ==
    SelectSeq([i \in 1..Len(aspects) |-> i],
              LAMBDA i : aspects[i].name = type /\ aspects[i].apply)

\* pushFingerprint: the Aspects whose apply it calls
\* (if (!!aspect && !!aspect.apply))
toApply(type, aspects) ==
    LET aspect == aspectOf(type, aspects)
    IN IF aspect # 0 /\ aspects[aspect].apply THEN <<aspect>> ELSE <<>>

\* a transform that reports the unapplied target as a failure
transformFailure(result) ==
    IF result = "true" THEN "p" ELSE "failure"

\* what the transform hands back: the project when pushFingerprint gave
\* true, otherwise { edited: false, success: true, target: p }
transformResult(result) ==
    IF result = "true" THEN "p" ELSE "notEditedSuccess"

\* the transform is run for a target; it addresses the channel
XformStarts(aspects, type) ==
    /\ xform.pc = "idle"
    /\ xform' = [xform EXCEPT !.pc = "notify", !.aspects = aspects, !.type = type]

\* addressChannels settles; on success queryPreferences is called
NotifySettles(ok) ==
    /\ xform.pc = "notify"
    /\ xform' = IF ok THEN [xform EXCEPT !.pc = "query"]
                ELSE [xform EXCEPT !.pc = "failed", !.failedAt = "notify"]

\* queryPreferences settles; on success pushFingerprint runs up to its await
\* of apply, or to its return false
QuerySettlesTarget(ok) ==
    /\ xform.pc = "query"
    /\ LET todo == toApply(xform.type, xform.aspects)
       IN xform' =
             CASE ~ok -> [xform EXCEPT !.pc = "failed", !.failedAt = "query"]
               [] todo # <<>> -> [xform EXCEPT !.pc = "applying", !.applied = todo]
               [] OTHER -> [xform EXCEPT !.pc = "pushed", !.pushed = "false"]

\* the apply of the Aspect settles: true when it edited the project, false
\* when it did not, or a rejection, which pushFingerprint passes on
ApplySettles(out) ==
    /\ xform.pc = "applying"
    /\ xform' =
          CASE out = "rejected" -> [xform EXCEPT !.pc = "failed", !.failedAt = "apply"]
            [] OTHER -> [xform EXCEPT !.pc = "pushed", !.pushed = out,
                                      !.edited = (out = "true")]

\* pushFingerprint has returned: title and body are filled in and the
\* transform hands back its result
XformReturns ==
    /\ xform.pc = "pushed"
    /\ xform' = [xform EXCEPT !.pc = "done", !.result = transformResult(xform.pushed)]

XformNext ==
    \/ (\E aspects \in AspectLists, type \in AspectTypes : XformStarts(aspects, type))
          /\ UNCHANGED notXform
    \/ (\E ok \in BOOLEAN : NotifySettles(ok)) /\ UNCHANGED notXform
    \/ (\E ok \in BOOLEAN : QuerySettlesTarget(ok)) /\ UNCHANGED notXform
    \/ (\E out \in {"true", "false", "rejected"} : ApplySettles(out)) /\ UNCHANGED notXform
    \/ XformReturns /\ UNCHANGED notXform

SpecXform == Init /\ [][XformNext]_vars

\* the target has an owning Aspect with an apply
Owned == toApply(xform.type, xform.aspects) # <<>>

(***************************************************************************)
(* C19.  aspectOf gives at most one Aspect, the first registered one that  *)
(* selects the fingerprint, so the applies invoked for a target are none   *)
(* or that Aspect's alone.                                                 *)
(***************************************************************************)
C19_AtMostOneAspectApplies ==
    LET first == aspectOf(xform.type, xform.aspects)
    IN /\ first \in 0..Len(xform.aspects)
       /\ first # 0 =>
             /\ xform.aspects[first].name = xform.type
             /\ \A j \in 1..(first - 1) : xform.aspects[j].name # xform.type
       /\ first = 0 => \A j \in 1..Len(xform.aspects) : xform.aspects[j].name # xform.type
       /\ Len(xform.applied) <= 1
       /\ xform.applied # <<>> => xform.applied = <<first>>

\* two registered Aspects select the target, both with an apply, and the
\* apply of the first one has been invoked
C19_Witness ==
    /\ xform.pc = "done"
    /\ Len(toApplyEveryMatch(xform.type, xform.aspects)) > 1
    /\ xform.applied = <<1>>

(***************************************************************************)
(* C20.  A target that no registered Aspect owns, or whose Aspect has no   *)
(* apply, is not an error: no apply is invoked, the project is not edited, *)
(* pushFingerprint gives false, applying does not fail, and the transform  *)
(* hands back success with edited: false.                                  *)
(***************************************************************************)
C20_NoOwnerIsNotAnError ==
    (xform.pc # "idle" /\ ~Owned) =>
        /\ xform.applied = <<>>
        /\ ~xform.edited
        /\ xform.pushed \in {"none", "false"}
        /\ xform.failedAt \in {"none", "notify", "query"}
        /\ xform.pc \in {"pushed", "done"} => xform.pushed = "false"
        /\ xform.pc = "done" => xform.result = "notEditedSuccess"

\* the transform is over for a target whose Aspect has no apply
C20_Witness ==
    /\ xform.pc = "done"
    /\ aspectOf(xform.type, xform.aspects) # 0
    /\ ~Owned
    /\ xform.result = "notEditedSuccess"

(***************************************************************************)
(* Applying several targets in one request: runEveryFingerprintApplication *)
(* tells the channel, then takes the fingerprints one after the other,     *)
(* reading each target and awaiting pushFingerprint for it.                *)
(***************************************************************************)
\* the largest number of fingerprints in one request
MaxBatch == 3

\* the requests: for each listed fingerprint, whether a registered Aspect
\* with an apply owns it
BatchRequests ==
    { s \in SeqsUpTo(BOOLEAN, MaxBatch) : s # <<>> }

\* the transform is run for a list of fingerprints; it addresses the channel
BatchStarts(owned) ==
    /\ batch.pc = "idle"
    /\ batch' = [batch EXCEPT !.pc = "notify", !.owned = owned]

\* addressChannels settles; on success the loop reads the first target
BatchNotified(ok) ==
    /\ batch.pc = "notify"
    /\ batch' = IF ok THEN [batch EXCEPT !.pc = "query", !.at = 1]
                ELSE [batch EXCEPT !.pc = "failed", !.failedAt = "notify"]

\* queryPreferences settles; on success pushFingerprint calls the apply of
\* the owning Aspect, or returns false, on which the transform returns
BatchQuerySettles(ok) ==
    /\ batch.pc = "query"
    /\ batch' =
          CASE ~ok -> [batch EXCEPT !.pc = "failed", !.failedAt = "query"]
            [] batch.owned[batch.at] ->
                 [batch EXCEPT !.pc = "applying", !.applied = Append(@, batch.at)]
            [] OTHER -> [batch EXCEPT !.pc = "done", !.result = "notEditedSuccess"]

\* the apply settles: with true the loop goes on to the next fingerprint or
\* the transform returns the project; with false the transform returns
\* { edited: false, success: true }; a rejection leaves the transform
BatchApplySettles(out) ==
    /\ batch.pc = "applying"
    /\ LET b == [batch EXCEPT !.outcomes = Append(@, out)]
       IN batch' =
             CASE out = "rejected" -> [b EXCEPT !.pc = "failed", !.failedAt = "apply"]
               [] out = "false" -> [b EXCEPT !.pc = "done", !.result = "notEditedSuccess"]
               [] batch.at < Len(batch.owned) -> [b EXCEPT !.pc = "query", !.at = @ + 1]
               [] OTHER -> [b EXCEPT !.pc = "done", !.result = "p"]

BatchNext ==
    \/ (\E owned \in BatchRequests : BatchStarts(owned)) /\ UNCHANGED notBatch
    \/ (\E ok \in BOOLEAN : BatchNotified(ok)) /\ UNCHANGED notBatch
    \/ (\E ok \in BOOLEAN : BatchQuerySettles(ok)) /\ UNCHANGED notBatch
    \/ (\E out \in {"true", "false", "rejected"} : BatchApplySettles(out))
          /\ UNCHANGED notBatch

SpecBatch == Init /\ [][BatchNext]_vars

(***************************************************************************)
(* C21.  When a batch request in which an apply returned false or threw is *)
(* over, and the channel and the target store did not fail, the apply of   *)
(* every listed fingerprint that has one was attempted, and the failed     *)
(* apply shows in the result as a failure.                                 *)
(***************************************************************************)
C21_BatchAppliesEveryFingerprint ==
    (/\ batch.pc \in {"done", "failed"}
     /\ batch.failedAt \notin {"notify", "query"}
     /\ \E j \in 1..Len(batch.outcomes) : batch.outcomes[j] # "true") =>
        /\ \A k \in 1..Len(batch.owned) :
              batch.owned[k] => \E j \in 1..Len(batch.applied) : batch.applied[j] = k
        /\ batch.pc = "failed" \/ batch.result = "notEditedSuccess"

(***************************************************************************)
(* The file aspect's apply: applyFileFingerprint looks for the file named  *)
(* in the fingerprint's data and sets its content, or adds the file.  The  *)
(* aspect's extract then fingerprints the files it is registered for.      *)
(***************************************************************************)
\* the files the JsonFile aspect is registered for
AspectFilenames == {"tslint.json", "tsconfig.json"}

\* the files of a project
Filenames == AspectFilenames \cup {"README.md"}

\* what a file can hold
FileContents == { c \in JsonFiles : Len(c.members) = 1 /\ c.members[1][1] = "x" }

\* the trees of a project: each file absent or holding some content
Projects == [Filenames -> FileContents \cup {Undefined}]

\* the fingerprint createFilesFingerprint makes of a file
fileFingerprint(filename, content) ==
    [name |-> filename,
     data |-> [content |-> content, filename |-> filename],
     sha |-> fileSha(content)]

\* the fingerprints the aspect extracts from a tree: one for each of its
\* files that is there
extractFiles(files) ==
    { fileFingerprint(f, files[f]) : f \in { g \in AspectFilenames : files[g] # Undefined } }

\* an apply that sets the content of a file only when the file is there
writtenIfPresent(files, fp, found) ==
    IF found THEN [files EXCEPT ![fp.data.filename] = fp.data.content] ELSE files

\* the tree after file.setContent(fp.data.content) on the file found, or
\* p.addFile(fp.data.filename, fp.data.content) when none was found
written(files, fp, found) ==
    [files EXCEPT ![fp.data.filename] = fp.data.content]

\* apply is called with a fingerprint of the aspect on a project: getFile
ApplyFileStarts(files, f, c) ==
    /\ proj.pc = "idle"
    /\ proj' = [proj EXCEPT !.pc = "getFile", !.before = files, !.files = files,
                            !.fp = fileFingerprint(f, c)]

\* the same fingerprint is applied once more to the project as it now is
ApplyFileAgain ==
    /\ proj.pc = "applied"
    /\ proj.applies = 1
    /\ proj.extracted = Undefined
    /\ proj' = [proj EXCEPT !.pc = "getFile"]

\* getFile settles: the file is found or not, and setContent or addFile is
\* called; a rejection ends the apply
GetFileSettles(ok) ==
    /\ proj.pc = "getFile"
    /\ proj' = IF ok THEN [proj EXCEPT !.pc = "write"]
               ELSE [proj EXCEPT !.pc = "failed"]

\* setContent or addFile settles; apply returns the project
WriteSettles(ok) ==
    /\ proj.pc = "write"
    /\ LET after == written(proj.files, proj.fp, proj.files[proj.fp.data.filename] # Undefined)
       IN proj' =
             IF ok
             THEN [proj EXCEPT !.pc = "applied", !.files = after, !.applies = @ + 1,
                               !.once = IF proj.applies = 0 THEN after ELSE @]
             ELSE [proj EXCEPT !.pc = "failed"]

\* the aspect's extract runs on the project after the apply
ReextractFiles ==
    /\ proj.pc = "applied"
    /\ proj.extracted = Undefined
    /\ proj' = [proj EXCEPT !.extracted = [fps |-> extractFiles(proj.files)]]

ProjNext ==
    \/ (\E files \in Projects, f \in AspectFilenames, c \in FileContents :
           ApplyFileStarts(files, f, c)) /\ UNCHANGED notProj
    \/ ApplyFileAgain /\ UNCHANGED notProj
    \/ (\E ok \in BOOLEAN : GetFileSettles(ok)) /\ UNCHANGED notProj
    \/ (\E ok \in BOOLEAN : WriteSettles(ok)) /\ UNCHANGED notProj
    \/ ReextractFiles /\ UNCHANGED notProj

SpecProj == Init /\ [][ProjNext]_vars

(***************************************************************************)
(* C22.  Once the file aspect's apply has completed for fp, the file named *)
(* in fp.data holds exactly fp.data.content, whether it was there before   *)
(* or not, and every other file is as it was; a second apply of fp leaves  *)
(* the tree of the first; and the aspect's extract then gives, for that    *)
(* file, one fingerprint, with the data of fp.                             *)
(***************************************************************************)
C22_ApplyFileMakesTheFileMatch ==
    proj.pc = "applied" =>
        /\ proj.files[proj.fp.data.filename] = proj.fp.data.content
        /\ \A f \in Filenames \ {proj.fp.data.filename} : proj.files[f] = proj.before[f]
        /\ proj.files = proj.once
        /\ proj.extracted # Undefined =>
              LET mine == { x \in proj.extracted.fps : x.name = proj.fp.data.filename }
              IN /\ Cardinality(mine) = 1
                 /\ \A x \in mine : x.data = proj.fp.data /\ x.sha = proj.fp.sha

\* the fingerprint was applied twice to a project that lacked the file, and
\* the extract has run
C22_Witness ==
    /\ proj.pc = "applied"
    /\ proj.applies = 2
    /\ proj.before[proj.fp.data.filename] = Undefined
    /\ proj.extracted # Undefined
    /\ \E f \in Filenames \ {proj.fp.data.filename} : proj.before[f] # Undefined

(***************************************************************************)
(* The target commands.  RegisterTargetFingerprint (updateTargetFingerprint)*)
(* looks the fingerprint up by sha and sets it as target; SetTargetFinger- *)
(* print sets the fingerprint it is given; DeleteTargetFingerprint removes *)
(* the target.  Each writes to the store once and then reports.            *)
(***************************************************************************)
\* the largest number of commands run
MaxCmds == 3

\* the keys of the store
TargetKeys == AspectTypes \X Names

\* how a command can end: before its write (the lookup or the write itself
\* rejected), after its write (the policy log or the reply rejected), or well
CmdOutcomes == {"notWritten", "writtenThenFailed", "done"}

\* a command that addresses the store by the fingerprint's name alone
targetKeyByName(type, name) == <<"t", name>>

\* the key a command hands the store: setFPTarget(...)(type, name, fp),
\* deleteFPTarget(...)(type, name)
targetKey(type, name) == <<type, name>>

\* the store after setTarget / deleteTarget under a key
storeSet(st, key, fp) == [st EXCEPT ![key] = fp]
storeDelete(st, key) == [st EXCEPT ![key] = Undefined]

\* a command has ended: the count goes up and, when its write succeeded,
\* it is the last write for the (type, name) it was given
commandEnded(t, type, name, op, fp, out) ==
    [t EXCEPT !.n = @ + 1,
              !.last[<<type, name>>] = IF out = "notWritten" THEN @ ELSE [op |-> op, fp |-> fp]]

\* updateTargetFingerprint: fromName gives type and name, GetFpBySha the
\* fingerprint, which is set under (type, name)
UpdateTargetCmd(type, name, sha, out) ==
    /\ targets.n < MaxCmds
    /\ LET fp == [type |-> type, name |-> name, sha |-> sha]
           st == IF out = "notWritten" THEN targets.store
                 ELSE storeSet(targets.store, targetKey(type, name), fp)
       IN targets' = commandEnded([targets EXCEPT !.store = st], type, name, "set", fp, out)

\* setTargetFingerprint: the fingerprint of the parameter, with the user
\* added, is set under (fp.type, fp.name)
SetTargetCmd(type, name, sha, out) ==
    /\ targets.n < MaxCmds
    /\ LET fp == [user |-> "u", type |-> type, name |-> name, sha |-> sha]
           st == IF out = "notWritten" THEN targets.store
                 ELSE storeSet(targets.store, targetKey(fp.type, fp.name), fp)
       IN targets' = commandEnded([targets EXCEPT !.store = st], type, name, "set", fp, out)

\* deleteTargetFingerprint: the target under (type, name) is removed
DeleteTargetCmd(type, name, out) ==
    /\ targets.n < MaxCmds
    /\ LET st == IF out = "notWritten" THEN targets.store
                 ELSE storeDelete(targets.store, targetKey(type, name))
       IN targets' = commandEnded([targets EXCEPT !.store = st], type, name, "delete", Undefined, out)

TargetsNext ==
    \/ (\E t \in AspectTypes, n \in Names, sha \in Shas, out \in CmdOutcomes :
           UpdateTargetCmd(t, n, sha, out)) /\ UNCHANGED notTargets
    \/ (\E t \in AspectTypes, n \in Names, sha \in Shas, out \in CmdOutcomes :
           SetTargetCmd(t, n, sha, out)) /\ UNCHANGED notTargets
    \/ (\E t \in AspectTypes, n \in Names, out \in CmdOutcomes :
           DeleteTargetCmd(t, n, out)) /\ UNCHANGED notTargets

SpecTargets == Init /\ [][TargetsNext]_vars

(***************************************************************************)
(* C23.  Under every key the store holds the fingerprint of the last       *)
(* command whose write for that key succeeded when that command is a set,  *)
(* and nothing when it is a delete or when there is none: commands on      *)
(* other keys do not count.                                                *)
(***************************************************************************)
C23_StoreHoldsTheLastWrite ==
    \A key \in TargetKeys :
        targets.store[key] =
            IF targets.last[key] = Undefined THEN Undefined ELSE targets.last[key].fp

\* a key was set and then deleted while another key of the same name holds
\* the target a command wrote in between
C23_Witness ==
    \E key, other \in TargetKeys :
        /\ key # other
        /\ key[2] = other[2]
        /\ targets.n = MaxCmds
        /\ targets.last[key] # Undefined
        /\ targets.last[key].op = "delete"
        /\ targets.store[other] # Undefined

(***************************************************************************)
(* Broadcasting a target: broadcastFingerprintMandate reads the target,    *)
(* asks for the head commits that carry the fingerprint, keeps the heads   *)
(* of master whose fingerprint differs from the target, and has editAll    *)
(* run the apply on the repository of each.                                *)
(***************************************************************************)
Repos == {"r1", "r2"}
Branches == {"master", "dev"}

\* the target being broadcast and what a head's analysis can hold: nothing
\* of interest, the target itself, another value of the target's
\* fingerprint, a fingerprint of another name
BroadcastTarget == [type |-> "t", name |-> "a", sha |-> "A"]

Analyses ==
    { {},
      {[type |-> "t", name |-> "a", sha |-> "A"]},
      {[type |-> "t", name |-> "a", sha |-> "B"]},
      {[type |-> "t", name |-> "b", sha |-> "B"]},
      {[type |-> "u", name |-> "a", sha |-> "B"]} }

\* the head commits of data.headCommitsWithFingerprint: for each repository
\* at most one head of master and one of dev, in the order the query gives
HeadOrder == << <<"r1", "master">>, <<"r2", "dev">>, <<"r2", "master">>, <<"r1", "dev">> >>

headCommits(present) ==
    LET RECURSIVE from(_)
        from(i) ==
            IF i > Len(HeadOrder) THEN <<>>
            ELSE IF present[HeadOrder[i]] = Undefined THEN from(i + 1)
                 ELSE << [repo |-> HeadOrder[i][1], branch |-> HeadOrder[i][2],
                          analysis |-> present[HeadOrder[i]].analysis] >> \o from(i + 1)
    IN from(1)

\* a broadcast that does not look at the branch of the head
broadcastRefsAnyBranch(heads, fp) ==
    LET differs(head) ==
            \E x \in head.analysis : x.type = fp.type /\ x.name = fp.name /\ x.sha # fp.sha
        kept == SelectSeq(heads, differs)
    IN [i \in 1..Len(kept) |-> [owner |-> "o", repo |-> kept[i].repo, branch |-> "master"]]

\* refs: the heads of master whose analysis has a fingerprint of the
\* target's type and name with another sha, as repository references
broadcastRefs(heads, fp) ==
    LET onMaster(head) == head.branch = "master"
        differs(head) ==
            \E x \in head.analysis : x.type = fp.type /\ x.name = fp.name /\ x.sha # fp.sha
        kept == SelectSeq(SelectSeq(heads, onMaster), differs)
    IN [i \in 1..Len(kept) |-> [owner |-> "o", repo |-> kept[i].repo, branch |-> "master"]]

BroadcastInit ==
    /\ RunnerInit
    /\ SnapOff
    /\ ConcOff
    /\ SendOff
    /\ XformOff
    /\ BatchOff
    /\ ProjOff
    /\ TargetsOff
    /\ CmdOff
    /\ AllOff
    /\ PubOff
    /\ EvtOff
    /\ DthOff
    /\ arg \in [fn : {"broadcast"},
                heads : [Repos \X Branches -> {Undefined} \cup [analysis : Analyses]]]
    /\ res = Undefined

\* the command runs: editAll is handed the refs and edits each of them
Broadcast ==
    /\ arg # Undefined
    /\ arg.fn = "broadcast"
    /\ res = Undefined
    /\ res' = [addressed |-> broadcastRefs(headCommits(arg.heads), BroadcastTarget)]
    /\ UNCHANGED arg

BroadcastNext == Broadcast /\ UNCHANGED notPure

SpecBroadcast == BroadcastInit /\ [][BroadcastNext]_vars

\* the repositories whose master head carries the target's fingerprint with
\* another sha
Impacted ==
    { r \in Repos :
         /\ arg.heads[<<r, "master">>] # Undefined
         /\ \E x \in arg.heads[<<r, "master">>].analysis :
               x.type = "t" /\ x.name = "a" /\ x.sha # "A" }

(***************************************************************************)
(* C24.  A broadcast addresses exactly the repositories whose master head  *)
(* carries the target's fingerprint with another sha, each of them once,   *)
(* and on master; with no such repository it addresses none.               *)
(***************************************************************************)
C24_BroadcastAddressesTheImpacted ==
    (arg # Undefined /\ arg.fn = "broadcast" /\ res # Undefined) =>
        /\ { res.addressed[i].repo : i \in 1..Len(res.addressed) } = Impacted
        /\ Len(res.addressed) = Cardinality(Impacted)
        /\ \A i \in 1..Len(res.addressed) : res.addressed[i].branch = "master"

\* one repository is addressed while the other is at the target on master
\* and behind it on dev only
C24_Witness ==
    /\ arg # Undefined /\ arg.fn = "broadcast" /\ res # Undefined
    /\ Len(res.addressed) = 1
    /\ \E r \in Repos \ Impacted :
          /\ arg.heads[<<r, "master">>] # Undefined
          /\ BroadcastTarget \in arg.heads[<<r, "master">>].analysis
          /\ arg.heads[<<r, "dev">>] # Undefined
          /\ [type |-> "t", name |-> "a", sha |-> "B"] \in arg.heads[<<r, "dev">>].analysis

(***************************************************************************)
(* Library goals.  checkLibraryGoals reads the team's goal versions and,   *)
(* for the libraries of the pushed fingerprint, has the choice message of  *)
(* libraryEditorChoiceMessage sent; withNewGoal writes a new goal version  *)
(* into the team's goals.  The goals code itself (atomist.goals) is known  *)
(* through its exports, its callers and its tests.                         *)
(***************************************************************************)
Libraries == {"librarya", "libraryb"}
Versions == {"v1", "v2"}

\* versions by library: the team's goals, or the libraries of a project
VersionMaps == [Libraries -> Versions \cup {"none"}]

\* check-library-goals: for each library of diff.to.data that has a goal
\* of another version, the action handed to the message callback
checkLibraryGoals(goals, data) ==
    { [library |-> [name |-> l, version |-> goals[l]], current |-> data[l]] :
         l \in { k \in Libraries : goals[k] # "none" /\ data[k] # "none" /\ goals[k] # data[k] } }

\* a message whose buttons have the two versions the wrong way round
libraryEditorChoiceSwapped(action) ==
    [accept |-> [name |-> action.library.name, version |-> action.current],
     setAsTarget |-> [name |-> action.library.name, version |-> action.library.version],
     ignore |-> [name |-> action.library.name, version |-> action.library.version]]

\* libraryEditorChoiceMessage: Accept and Ignore carry the goal version,
\* Set as target the version the project is at
libraryEditorChoiceMessage(action) ==
    [accept |-> [name |-> action.library.name, version |-> action.library.version],
     setAsTarget |-> [name |-> action.library.name, version |-> action.current],
     ignore |-> [name |-> action.library.name, version |-> action.library.version]]

GoalsInit ==
    /\ RunnerInit
    /\ SnapOff
    /\ ConcOff
    /\ SendOff
    /\ XformOff
    /\ BatchOff
    /\ ProjOff
    /\ TargetsOff
    /\ CmdOff
    /\ AllOff
    /\ PubOff
    /\ EvtOff
    /\ DthOff
    /\ arg \in [fn : {"goals"}, goals : VersionMaps, data : VersionMaps]
    /\ res = Undefined

\* checkLibraryGoals runs for a diff: the messages sent to the channel
CheckLibraryGoals ==
    /\ arg # Undefined
    /\ arg.fn = "goals"
    /\ res = Undefined
    /\ res' = [sent |-> { libraryEditorChoiceMessage(a) : a \in checkLibraryGoals(arg.goals, arg.data) }]
    /\ UNCHANGED arg

GoalsNext == CheckLibraryGoals /\ UNCHANGED notPure

SpecGoals == GoalsInit /\ [][GoalsNext]_vars

Teams == {"team-id", "other-team"}

\* a goal as the caller gives it: a record, or the text name:version
goalAs(form, name, version) ==
    IF form = "record"
    THEN [form |-> form, value |-> [name |-> name, version |-> version]]
    ELSE [form |-> form, value |-> <<name, ":", version>>]

\* the library and version of a goal: the fields of the record, or the
\* parts of the text before and after the colon
goalOf(libGoal) ==
    IF libGoal.form = "record" THEN libGoal.value
    ELSE LET colon == CHOOSE i \in 1..Len(libGoal.value) : libGoal.value[i] = ":"
         IN [name |-> libGoal.value[colon - 1], version |-> libGoal.value[colon + 1]]

\* a with-new-goal that writes the new goal alone
withNewGoalAlone(prefs, libGoal) ==
    << [team |-> prefs.team,
        goals |-> [l \in Libraries |->
                      IF l = goalOf(libGoal).name THEN goalOf(libGoal).version ELSE "none"]] >>

\* with-new-goal: the calls made to the preference editor, given what the
\* preference query returned: one, to the team queried, with the goals read
\* and the library set to the new version
withNewGoal(prefs, libGoal) ==
    << [team |-> prefs.team,
        goals |-> [prefs.goals EXCEPT ![goalOf(libGoal).name] = goalOf(libGoal).version]] >>

NewGoalInit ==
    /\ RunnerInit
    /\ SnapOff
    /\ ConcOff
    /\ SendOff
    /\ XformOff
    /\ BatchOff
    /\ ProjOff
    /\ TargetsOff
    /\ CmdOff
    /\ AllOff
    /\ PubOff
    /\ EvtOff
    /\ DthOff
    /\ arg \in [fn : {"newGoal"}, team : Teams, goals : VersionMaps,
                name : Libraries, version : Versions, form : {"record", "string"}]
    /\ res = Undefined

\* the exported withNewGoal is called with the goal in one form; the other
\* form is run on the same preferences for comparison
WithNewGoal ==
    /\ arg # Undefined
    /\ arg.fn = "newGoal"
    /\ res = Undefined
    /\ LET prefs == [team |-> arg.team, goals |-> arg.goals]
           otherForm == IF arg.form = "record" THEN "string" ELSE "record"
       IN res' = [written |-> withNewGoal(prefs, goalAs(arg.form, arg.name, arg.version)),
                  otherwise |-> withNewGoal(prefs, goalAs(otherForm, arg.name, arg.version))]
    /\ UNCHANGED arg

NewGoalNext == WithNewGoal /\ UNCHANGED notPure

SpecNewGoal == NewGoalInit /\ [][NewGoalNext]_vars

MaxVotes == 3

\* a vote that takes sides against the push
abstainVoteAgainst == [abstain |-> FALSE, failed |-> TRUE]

\* the vote of a handler that has nothing to say: { abstain: true }
abstainVote == [abstain |-> TRUE]

\* the votes handlers give: abstaining, for, against, and abstaining with a
\* failure left in it
VoteKinds ==
    { abstainVote,
      [abstain |-> FALSE, failed |-> FALSE],
      [abstain |-> FALSE, failed |-> TRUE],
      [abstain |-> TRUE, failed |-> TRUE] }

\* the default policy: the push fails compliance when some vote that does
\* not abstain signals failure
tallyFails(vts) ==
    \E i \in 1..Len(vts) : ~vts[i].abstain /\ vts[i].failed

\* the votes with n abstaining votes put in after the first at votes
withAbstains(vts, at, n) ==
    SubSeq(vts, 1, at) \o [i \in 1..n |-> abstainVote] \o SubSeq(vts, at + 1, Len(vts))

\* the votes with every abstaining vote taken out
withoutAbstains(vts) == SelectSeq(vts, LAMBDA v : ~v.abstain)

TallyInit ==
    /\ RunnerInit
    /\ SnapOff
    /\ ConcOff
    /\ SendOff
    /\ XformOff
    /\ BatchOff
    /\ ProjOff
    /\ TargetsOff
    /\ CmdOff
    /\ AllOff
    /\ PubOff
    /\ EvtOff
    /\ DthOff
    /\ arg \in { a \in [fn : {"tally"}, votes : SeqsUpTo(VoteKinds, MaxVotes),
                        at : 0..MaxVotes, more : 1..MaxVotes] : a.at <= Len(a.votes) }
    /\ res = Undefined

\* the ballot is taken on the votes, on the votes with more abstentions,
\* and on the votes without any
Tally ==
    /\ arg # Undefined
    /\ arg.fn = "tally"
    /\ res = Undefined
    /\ res' = [fails |-> tallyFails(arg.votes),
               withMore |-> tallyFails(withAbstains(arg.votes, arg.at, arg.more)),
               withNone |-> tallyFails(withoutAbstains(arg.votes))]
    /\ UNCHANGED arg

TallyNext == Tally /\ UNCHANGED notPure

SpecTally == TallyInit /\ [][TallyNext]_vars

MaxIdLen == 3

Chars == {"a", ":"}

\* a text holds the delimiter
hasDelimiter(s) == \E i \in 1..(Len(s) - 1) : s[i] = ":" /\ s[i + 1] = ":"

\* the types and names: texts that do not hold the delimiter
Identifiers == { s \in SeqsUpTo(Chars, MaxIdLen) : ~hasDelimiter(s) }

\* toName: type::name
toName(type, name) == type \o <<":", ":">> \o name

\* a fromName that cuts at the first colon
fromNameAtColon(s) ==
    IF \E i \in 1..Len(s) : s[i] = ":"
    THEN LET i == CHOOSE k \in 1..Len(s) : s[k] = ":" /\ \A j \in 1..(k - 1) : s[j] # ":"
         IN [type |-> SubSeq(s, 1, i - 1), name |-> SubSeq(s, i + 1, Len(s))]
    ELSE Undefined

\* fromName: the text before and the text after the delimiter, the last one
\* when the text holds several
fromName(s) ==
    IF hasDelimiter(s)
    THEN LET at == { k \in 1..(Len(s) - 1) : s[k] = ":" /\ s[k + 1] = ":" }
             i == CHOOSE k \in at : \A j \in at : j <= k
         IN [type |-> SubSeq(s, 1, i - 1), name |-> SubSeq(s, i + 2, Len(s))]
    ELSE Undefined

NameInit ==
    /\ RunnerInit
    /\ SnapOff
    /\ ConcOff
    /\ SendOff
    /\ XformOff
    /\ BatchOff
    /\ ProjOff
    /\ TargetsOff
    /\ CmdOff
    /\ AllOff
    /\ PubOff
    /\ EvtOff
    /\ DthOff
    /\ arg \in [fn : {"name"}, type : Identifiers, name : Identifiers]
    /\ res = Undefined

\* a menu value is built for a fingerprint and, picked, comes back as the
\* parameter of a command, which takes it apart
PickFromMenu ==
    /\ arg # Undefined
    /\ arg.fn = "name"
    /\ res = Undefined
    /\ res' = [value |-> toName(arg.type, arg.name),
               back |-> fromName(toName(arg.type, arg.name))]
    /\ UNCHANGED arg

NameNext == PickFromMenu /\ UNCHANGED notPure

SpecName == NameInit /\ [][NameNext]_vars

AwayFromColons ==
    /\ arg.type = <<>> \/ arg.type[Len(arg.type)] # ":"
    /\ arg.name = <<>> \/ arg.name[1] # ":"

MaxDiffs == 3

\* the diffs of one fingerprint name: no previous fingerprint, the same
\* sha, or another sha
DiffKinds ==
    [from : {Undefined} \cup [name : {"a"}, sha : Shas], to : [name : {"a"}, sha : Shas]]

\* a wrapper that also lets through the diffs without a previous fingerprint
changedOrNew(diff) == diff.from = Undefined \/ diff.to.sha # diff.from.sha

\* diff.from && diff.to.sha !== diff.from.sha
changed(diff) == diff.from # Undefined /\ diff.to.sha # diff.from.sha

\* the wrapped handler: it votes on each diff it is given
handlerVote(diff) == [abstain |-> FALSE, failed |-> FALSE, on |-> diff]

\* diffOnlyHandler, one diff: whether the handler was called, and the vote
diffOnlyHandler(diff) ==
    IF changed(diff) THEN [called |-> TRUE, vote |-> handlerVote(diff)]
    ELSE [called |-> FALSE, vote |-> abstainVote]

\* diffOnlyHandler, a list of diffs: what the handler received, and the
\* votes: the handler's, then one abstention for each diff held back
diffOnlyHandlerList(diffs) ==
    LET toDiff == SelectSeq(diffs, changed)
        rest == SelectSeq(diffs, LAMBDA d : ~changed(d))
    IN [received |-> toDiff,
        votes |-> [i \in 1..Len(toDiff) |-> handlerVote(toDiff[i])]
                     \o [i \in 1..Len(rest) |-> abstainVote]]

DiffOnlyInit ==
    /\ RunnerInit
    /\ SnapOff
    /\ ConcOff
    /\ SendOff
    /\ XformOff
    /\ BatchOff
    /\ ProjOff
    /\ TargetsOff
    /\ CmdOff
    /\ AllOff
    /\ PubOff
    /\ EvtOff
    /\ DthOff
    /\ arg \in [fn : {"diffOnly"}, diffs : SeqsUpTo(DiffKinds, MaxDiffs)]
    /\ res = Undefined

\* the wrapped handler is run on each diff, and on the list of them
RunDiffOnly ==
    /\ arg # Undefined
    /\ arg.fn = "diffOnly"
    /\ res = Undefined
    /\ res' = [each |-> [i \in 1..Len(arg.diffs) |-> diffOnlyHandler(arg.diffs[i])],
               list |-> diffOnlyHandlerList(arg.diffs)]
    /\ UNCHANGED arg

DiffOnlyNext == RunDiffOnly /\ UNCHANGED notPure

SpecDiffOnly == DiffOnlyInit /\ [][DiffOnlyNext]_vars

(***************************************************************************)
(* C29.  The wrapped handler is called for a diff exactly when the diff    *)
(* has a previous fingerprint of another sha, and every other diff gets an *)
(* abstention; given a list, the handler receives exactly those diffs, in  *)
(* order, and there are as many votes as diffs, the abstentions as many as *)
(* the diffs held back.                                                    *)
(***************************************************************************)
C29_DiffOnlyCallsOnChange ==
    (arg # Undefined /\ arg.fn = "diffOnly" /\ res # Undefined) =>
        LET moved == { i \in 1..Len(arg.diffs) :
                          /\ arg.diffs[i].from # Undefined
                          /\ arg.diffs[i].from.sha # arg.diffs[i].to.sha }
        IN /\ \A i \in 1..Len(arg.diffs) :
                 /\ res.each[i].called <=> i \in moved
                 /\ i \notin moved => res.each[i].vote = [abstain |-> TRUE]
                 /\ i \in moved => res.each[i].vote.on = arg.diffs[i]
           /\ Len(res.list.received) = Cardinality(moved)
           /\ \A j \in 1..Len(res.list.received) :
                 /\ res.list.received[j].from # Undefined
                 /\ res.list.received[j].from.sha # res.list.received[j].to.sha
           /\ Len(res.list.votes) = Len(arg.diffs)
           /\ Cardinality({ j \in 1..Len(res.list.votes) : res.list.votes[j].abstain })
                 = Len(arg.diffs) - Cardinality(moved)

\* a list with a changed, an unchanged and a new fingerprint has been handled
C29_Witness ==
    /\ arg # Undefined /\ arg.fn = "diffOnly" /\ res # Undefined
    /\ Len(arg.diffs) = 3
    /\ Len(res.list.received) = 1
    /\ \E i, j \in 1..3 :
          /\ arg.diffs[i].from = Undefined
          /\ arg.diffs[j].from # Undefined
          /\ arg.diffs[j].from.sha = arg.diffs[j].to.sha

NoSha == ""

\* what a command is asked to do
CmdRequests ==
    [kind : {"update"}, type : AspectTypes, name : Names, sha : Shas, broadcast : BOOLEAN]
      \cup [kind : {"delete", "fromMaster"}, type : AspectTypes, name : Names,
            sha : {"none"}, broadcast : {FALSE}]

\* what the head of a branch may hold: commit.analysis
HeadAnalyses ==
    SeqsUpTo([type : AspectTypes, name : Names, sha : Shas \cup {NoSha}], 2)

\* what a query may give: a rejection, no repository or no fingerprint, or its data
QueryOutcomesOfCmd == {"rejected", "empty", "data"}

\* analysis.find(x => x.name === name && x.type === type)
findFp(analysis, type, name) ==
    LET at == { i \in 1..Len(analysis) : analysis[i].name = name /\ analysis[i].type = type }
    IN  IF at = {} THEN Undefined
        ELSE analysis[CHOOSE i \in at : \A j \in at : i <= j]

\* a command that sets whatever it found
fromMasterWritesFound(fp) == fp # Undefined

\* if (!!fp.sha): the fingerprint found is set only when it has a sha
fromMasterWrites(fp) == fp # Undefined /\ fp.sha # NoSha

\* the command rejects where it stands
cmdRejected(c) == [c EXCEPT !.pc = "done", !.result = "rejected"]

\* the listener starts: the delete command calls deleteFPTarget at once, the
\* other two issue their query
CmdStarts(req) ==
    /\ cmd.pc \in {"idle", "done"}
    /\ cmd.n < MaxCmds
    /\ cmd' = [cmd EXCEPT !.pc = IF req.kind = "delete" THEN "store" ELSE "query",
                          !.kind = req.kind, !.type = req.type, !.name = req.name,
                          !.sha = req.sha, !.broadcast = req.broadcast,
                          !.fp = Undefined, !.before = cmd.store, !.wrote = "none",
                          !.logs = <<>>, !.msgs = <<>>, !.result = "none", !.n = @ + 1]

\* the query settles.  GetFpBySha: fp.data of no fingerprint throws.
\* GetFpByBranch: Repo[0] of no repository throws, fp.sha of no fingerprint
\* throws, a fingerprint without sha returns FailurePromise.  Otherwise
\* setFPTarget is called.
CmdQuerySettles(out, analysis) ==
    /\ cmd.pc = "query"
    /\ LET fp == IF cmd.kind = "update"
                 THEN [type |-> cmd.type, name |-> cmd.name, sha |-> cmd.sha]
                 ELSE findFp(analysis, cmd.type, cmd.name)
       IN  cmd' = IF out # "data" \/ fp = Undefined THEN cmdRejected(cmd)
                  ELSE IF cmd.kind = "fromMaster" /\ ~fromMasterWrites(fp)
                       THEN [cmd EXCEPT !.pc = "done", !.result = "Failure", !.fp = fp]
                       ELSE [cmd EXCEPT !.pc = "store", !.fp = fp]

\* setFPTarget / deleteFPTarget settles.  After a write the update command
\* sends the Set policy log, the delete command its success message, and
\* the command from master asks about the broadcast.
CmdStoreSettles(ok) ==
    /\ cmd.pc = "store"
    /\ cmd' = IF ~ok THEN cmdRejected([cmd EXCEPT !.wrote = "rejected"])
              ELSE IF cmd.kind = "update"
              THEN [cmd EXCEPT !.store = storeSet(@, targetKey(cmd.type, cmd.name), cmd.fp),
                               !.wrote = "ok", !.logs = Append(@, "Set"), !.pc = "log"]
              ELSE IF cmd.kind = "delete"
              THEN [cmd EXCEPT !.store = storeDelete(@, targetKey(cmd.type, cmd.name)),
                               !.wrote = "ok", !.msgs = Append(@, "success"), !.pc = "reply"]
              ELSE [cmd EXCEPT !.store = storeSet(@, targetKey(cmd.fp.type, cmd.fp.name), cmd.fp),
                               !.wrote = "ok", !.msgs = Append(@, "broadcast?"), !.pc = "reply"]

\* sendPolicyLog settles.  The update command then asks about the broadcast
\* or reports success; the delete command is over.
CmdLogSettles(ok) ==
    /\ cmd.pc = "log"
    /\ cmd' = IF ~ok THEN cmdRejected(cmd)
              ELSE IF cmd.kind = "update"
              THEN [cmd EXCEPT !.msgs = Append(@, IF cmd.broadcast THEN "broadcast?" ELSE "success"),
                               !.pc = "reply"]
              ELSE [cmd EXCEPT !.pc = "done", !.result = "Success"]

\* addressChannels / askAboutBroadcast settles.  The delete command then
\* sends the Unset policy log; the other two are over.
CmdReplySettles(ok) ==
    /\ cmd.pc = "reply"
    /\ cmd' = IF ~ok THEN cmdRejected(cmd)
              ELSE IF cmd.kind = "delete"
              THEN [cmd EXCEPT !.logs = Append(@, "Unset"), !.pc = "log"]
              ELSE [cmd EXCEPT !.pc = "done", !.result = "Success"]

CmdNext ==
    \/ (\E req \in CmdRequests : CmdStarts(req)) /\ UNCHANGED notCmd
    \/ (\E out \in QueryOutcomesOfCmd, an \in HeadAnalyses : CmdQuerySettles(out, an))
          /\ UNCHANGED notCmd
    \/ (\E ok \in BOOLEAN : CmdStoreSettles(ok)) /\ UNCHANGED notCmd
    \/ (\E ok \in BOOLEAN : CmdLogSettles(ok)) /\ UNCHANGED notCmd
    \/ (\E ok \in BOOLEAN : CmdReplySettles(ok)) /\ UNCHANGED notCmd

SpecCmd == Init /\ [][CmdNext]_vars

\* the policy-log action of a command
cmdAction == [update |-> "Set", delete |-> "Unset"]

(***************************************************************************)
(* C31.  When RegisterTargetFingerprint or DeleteTargetFingerprint is      *)
(* over, it has emitted its policy-log entry (Set, resp. Unset) exactly    *)
(* when its write to (resp. delete from) the store succeeded, and never    *)
(* more than once; and at no time has it sent a success message after a    *)
(* store operation that failed.                                            *)
(***************************************************************************)
C31_PolicyLogIffStored ==
    cmd.kind \in {"update", "delete"} =>
        /\ Len(cmd.logs) <= 1
        /\ \A i \in 1..Len(cmd.logs) : cmd.logs[i] = cmdAction[cmd.kind]
        /\ cmd.pc = "done" => (cmd.logs # <<>> <=> cmd.wrote = "ok")
        /\ cmd.wrote # "ok" => \A i \in 1..Len(cmd.msgs) : cmd.msgs[i] # "success"

(***************************************************************************)
(* C32.  SetTargetFingerprintFromLatestMaster changes the store only by    *)
(* setting, under its type and name, a fingerprint of that type and name   *)
(* that it found on the head and that has a sha.  When it is over without  *)
(* having found such a fingerprint, its result is a failure (the Failure   *)
(* result or a rejection), the store is as it was before the command and   *)
(* no broadcast question was asked.  The broadcast question is asked only  *)
(* when the write has completed.                                           *)
(***************************************************************************)
C32_FromMasterWritesOnlyWhatItFound ==
    cmd.kind = "fromMaster" =>
        LET usable == cmd.fp # Undefined /\ cmd.fp.sha # NoSha
            asked == \E i \in 1..Len(cmd.msgs) : cmd.msgs[i] = "broadcast?"
        IN  /\ cmd.store # cmd.before =>
                /\ usable
                /\ cmd.fp.type = cmd.type /\ cmd.fp.name = cmd.name
                /\ cmd.store = [cmd.before EXCEPT ![<<cmd.type, cmd.name>>] = cmd.fp]
            /\ (cmd.pc = "done" /\ ~usable) =>
                /\ cmd.result \in {"Failure", "rejected"}
                /\ cmd.store = cmd.before
                /\ ~asked
            /\ asked => cmd.wrote = "ok" /\ cmd.store[<<cmd.type, cmd.name>>] = cmd.fp

\* the fingerprint found on the head has no sha, the command has ended with
\* the Failure result, and the target an earlier command set is still there
C32_Witness ==
    /\ cmd.kind = "fromMaster"
    /\ cmd.pc = "done"
    /\ cmd.fp # Undefined
    /\ cmd.fp.sha = NoSha
    /\ cmd.result = "Failure"
    /\ cmd.store[<<cmd.type, cmd.name>>] # Undefined

(***************************************************************************)
(* The apply-all transform on a working copy.  runEveryFingerprintApplica- *)
(* tion takes the listed fingerprints in a for loop: it awaits the target  *)
(* and then pushFingerprint, which awaits the apply of the owning Aspect   *)
(* (here applyFileFingerprint: getFile, then setContent or addFile) or     *)
(* returns false when no Aspect owns the fingerprint.  On a false result   *)
(* the transform returns { edited: false, success: true, target: p }.      *)
(***************************************************************************)
\* the largest number of fingerprints listed for a working copy
MaxListed == 2

\* what a working copy's file can hold
CopyContents == { c \in FileContents : ~c.spaced }

\* the working copies the transform is run on
WorkingCopies ==
    { p \in Projects : /\ p["README.md"] \in CopyContents
                       /\ \A f \in AspectFilenames : p[f] \in CopyContents \cup {Undefined} }

\* the fingerprints that can be listed: targets of the file Aspect, and one
\* target no registered Aspect owns
ListedFps ==
    { [owned |-> TRUE, fp |-> fileFingerprint(f, c)] : f \in AspectFilenames, c \in CopyContents }
      \cup { [owned |-> FALSE, fp |-> Undefined] }

\* every mapped callback of Promise.all(fingerprints.map(async ...)) starts
\* at once
mayStartAll(st, k) == TRUE

\* for (const fpName of fingerprints) { const result = await ... }: the
\* k-th fingerprint is taken when those before it have been applied
mayStart(st, k) == \A j \in 1..(k - 1) : st[j] = "done"

\* the transform is run on a working copy for a list of fingerprints
AllStarts ==
    /\ all.pc = "idle"
    /\ \E files \in WorkingCopies, listed \in SeqsUpTo(ListedFps, MaxListed) \ {<<>>} :
          all' = [all EXCEPT !.pc = "running", !.listed = listed,
                             !.st = [k \in 1..Len(listed) |-> "waiting"],
                             !.before = files, !.files = files]

\* queryPreferences settles for the k-th fingerprint and pushFingerprint is
\* called: the apply of the owning Aspect starts with getFile, or, with no
\* owner, pushFingerprint returns false and the transform edited: false
FpStarts(k, ok) ==
    /\ all.pc = "running"
    /\ k \in 1..Len(all.listed)
    /\ all.st[k] = "waiting"
    /\ mayStart(all.st, k)
    /\ all' = IF ~ok THEN [all EXCEPT !.pc = "failed"]
              ELSE IF all.listed[k].owned THEN [all EXCEPT !.st[k] = "getFile"]
              ELSE [all EXCEPT !.pc = "done", !.result = "notEdited"]

\* p.getFile settles in the k-th apply; setContent or addFile is called
FpGetFile(k, ok) ==
    /\ all.pc = "running"
    /\ k \in 1..Len(all.listed)
    /\ all.st[k] = "getFile"
    /\ all' = IF ok THEN [all EXCEPT !.st[k] = "write"] ELSE [all EXCEPT !.pc = "failed"]

\* setContent or addFile settles in the k-th apply, which returns the
\* project; when that was the last one the transform returns the project
FpWrite(k, ok) ==
    /\ all.pc = "running"
    /\ k \in 1..Len(all.listed)
    /\ all.st[k] = "write"
    /\ LET fp == all.listed[k].fp
           a == [all EXCEPT !.st[k] = "done",
                            !.files = written(@, fp, @[fp.data.filename] # Undefined)]
       IN  all' = IF ~ok THEN [all EXCEPT !.pc = "failed"]
                  ELSE IF \A j \in 1..Len(a.st) : a.st[j] = "done"
                       THEN [a EXCEPT !.pc = "done", !.result = "p"]
                       ELSE a

AllNext ==
    \/ AllStarts /\ UNCHANGED notAll
    \/ (\E k \in 1..MaxListed, ok \in BOOLEAN : FpStarts(k, ok)) /\ UNCHANGED notAll
    \/ (\E k \in 1..MaxListed, ok \in BOOLEAN : FpGetFile(k, ok)) /\ UNCHANGED notAll
    \/ (\E k \in 1..MaxListed, ok \in BOOLEAN : FpWrite(k, ok)) /\ UNCHANGED notAll

SpecAll == Init /\ [][AllNext]_vars

(***************************************************************************)
(* C33.  When the apply-all transform has returned edited: false, the      *)
(* working copy is as it was before the transform started.                 *)
(***************************************************************************)
C33_NotEditedLeavesTheCopy ==
    (all.pc = "done" /\ all.result = "notEdited") => all.files = all.before

\* the working copy after the listed fingerprints were applied one after
\* another in the listed order
RECURSIVE appliedInOrder(_, _)
appliedInOrder(files, listed) ==
    IF listed = <<>> THEN files
    ELSE LET fp == Head(listed).fp
         IN  appliedInOrder(written(files, fp, files[fp.data.filename] # Undefined),
                            Tail(listed))

MaxAnalysis == 2

\* a name that is absent: if (fp.name) is false
NoName == ""

\* the fingerprints the before commit may hold
AnalysisEntries == [type : AspectTypes, name : Names \cup {NoName}, sha : Shas]

\* a record as the keys it has, in the order they were first set, each with
\* its value: a record that keeps the value a key was first given
recordPutIfAbsent(rec, key, val) ==
    IF \E i \in 1..Len(rec) : rec[i][1] = key THEN rec ELSE Append(rec, <<key, val>>)

\* record[key] = val: the key's value is replaced, or the key is added
recordPut(rec, key, val) ==
    IF \E i \in 1..Len(rec) : rec[i][1] = key
    THEN [i \in 1..Len(rec) |-> IF rec[i][1] = key THEN <<key, val>> ELSE rec[i]]
    ELSE Append(rec, <<key, val>>)

\* record[key]
recordGet(rec, key) ==
    IF \E i \in 1..Len(rec) : rec[i][1] = key
    THEN rec[CHOOSE i \in 1..Len(rec) : rec[i][1] = key][2]
    ELSE Undefined

\* results.Commit[0].analysis.reduce((record, fp) => { if (fp.name) {
\* record[fp.name] = { sha: fp.sha, data, name: fp.name, ... } } return
\* record }, {}): the FP built has no type
RECURSIVE lastFingerprintsFrom(_, _)
lastFingerprintsFrom(record, analysis) ==
    IF analysis = <<>> THEN record
    ELSE LET fp == Head(analysis)
         IN  lastFingerprintsFrom(
                 IF fp.name # NoName
                 THEN recordPut(record, fp.name, [sha |-> fp.sha, name |-> fp.name])
                 ELSE record,
                 Tail(analysis))

lastFingerprints(analysis) == lastFingerprintsFrom(<<>>, analysis)

LastInit ==
    /\ RunnerInit
    /\ SnapOff
    /\ ConcOff
    /\ SendOff
    /\ XformOff
    /\ BatchOff
    /\ ProjOff
    /\ TargetsOff
    /\ CmdOff
    /\ AllOff
    /\ PubOff
    /\ EvtOff
    /\ DthOff
    /\ arg \in [fn : {"last"}, analysis : SeqsUpTo(AnalysisEntries, MaxAnalysis),
                current : [type : AspectTypes, name : Names, sha : Shas]]
    /\ res = Undefined

\* the runner builds the map and takes from it the `from` of a current
\* fingerprint: handleDiffs(fp, previous[fp.name], ...)
RunLastFingerprints ==
    /\ arg # Undefined
    /\ arg.fn = "last"
    /\ res = Undefined
    /\ LET record == lastFingerprints(arg.analysis)
       IN  res' = [previous |-> record, from |-> recordGet(record, arg.current.name)]
    /\ UNCHANGED arg

LastNext == RunLastFingerprints /\ UNCHANGED notPure

SpecLast == LastInit /\ [][LastNext]_vars

(***************************************************************************)
(* C35.  The map lastFingerprints builds has at most one entry per name    *)
(* and none without a name; a name has an entry exactly when the before    *)
(* commit holds a fingerprint of that name, and the entry carries the sha  *)
(* of the last such fingerprint listed; and the `from` of a current        *)
(* fingerprint is the entry of its name, whatever the types of the two.    *)
(***************************************************************************)
C35_LastOfEachNameIsPrevious ==
    (arg # Undefined /\ arg.fn = "last" /\ res # Undefined) =>
        LET an == arg.analysis
            named(n) == { i \in 1..Len(an) : an[i].name = n }
            lastOf(n) == CHOOSE i \in named(n) : \A j \in named(n) : j <= i
            entries(n) == { i \in 1..Len(res.previous) : res.previous[i][1] = n }
        IN  /\ \A n \in Names \cup {NoName} : Cardinality(entries(n)) <= 1
            /\ entries(NoName) = {}
            /\ \A n \in Names :
                  /\ entries(n) # {} <=> named(n) # {}
                  /\ \A i \in entries(n) :
                        res.previous[i][2] = [sha |-> an[lastOf(n)].sha, name |-> n]
            /\ res.from = IF named(arg.current.name) = {} THEN Undefined
                          ELSE [sha |-> an[lastOf(arg.current.name)].sha,
                                name |-> arg.current.name]

\* the before commit holds two fingerprints of the current fingerprint's
\* name with different shas, the last of them of another type than the
\* current one, and the map was built
C35_Witness ==
    /\ arg # Undefined /\ arg.fn = "last" /\ res # Undefined
    /\ Len(arg.analysis) = 2
    /\ arg.analysis[1].name = arg.current.name
    /\ arg.analysis[2].name = arg.current.name
    /\ arg.analysis[1].sha # arg.analysis[2].sha
    /\ arg.analysis[2].type # arg.current.type
    /\ res.from # Undefined

(***************************************************************************)
(* Publishing the fingerprints.  After the extraction the runner calls     *)
(* sendCustomEvent for every fingerprint inside allFps.forEach(async ...), *)
(* which nobody awaits, and goes on to handleDiffs and tallyVotes.         *)
(* sendCustomEvent awaits client.send inside a try whose catch logs.       *)
(***************************************************************************)
\* the fingerprints one run may have extracted
PublishedFps == SeqsUpTo([name : Names, sha : Shas], MaxFps)

\* a send without the try: its failure fails the run
eventUncaught(p, k) ==
    [p EXCEPT !.sends[k] = "failed", !.pc = "rejected", !.failedBy = "send"]

\* catch (e) { logger.error(`unable to send AtomistFingerprint ...`) }
eventCaught(p, k) ==
    [p EXCEPT !.sends[k] = "failed", !.logged = Append(@, k)]

\* allFps.forEach(async fp => { await sendCustomEvent(...) }) hands one event
\* per fingerprint to client.send, and allFps.map(fp => handleDiffs(...))
\* starts the dispatch in the same turn
PublishStarts(p, fps) ==
    /\ pub.pc = "idle"
    /\ pub' = [pub EXCEPT !.pc = "dispatch", !.push = p, !.fps = fps,
                          !.events = [k \in 1..Len(fps) |-> customEvent(fps[k], p)],
                          !.sends = [k \in 1..Len(fps) |-> "pending"]]

\* client.send settles for the k-th event, wherever the runner is
EventSendSettles(k, ok) ==
    /\ pub.pc # "idle"
    /\ k \in 1..Len(pub.sends)
    /\ pub.sends[k] = "pending"
    /\ pub' = IF ok THEN [pub EXCEPT !.sends[k] = "sent"] ELSE eventCaught(pub, k)

\* await Promise.all(allFps.map(... handleDiffs ...)) settles
PubDispatchSettles(ok) ==
    /\ pub.pc = "dispatch"
    /\ pub' = IF ok THEN [pub EXCEPT !.pc = "tally"]
              ELSE [pub EXCEPT !.pc = "rejected", !.failedBy = "dispatch"]

\* await tallyVotes(...) settles and the runner returns allFps
PubTallySettles(ok) ==
    /\ pub.pc = "tally"
    /\ pub' = IF ok THEN [pub EXCEPT !.pc = "returned"]
              ELSE [pub EXCEPT !.pc = "rejected", !.failedBy = "tally"]

PubNext ==
    \/ (\E p \in Pushes, fps \in PublishedFps : PublishStarts(p, fps)) /\ UNCHANGED notPub
    \/ (\E k \in 1..MaxFps, ok \in BOOLEAN : EventSendSettles(k, ok)) /\ UNCHANGED notPub
    \/ (\E ok \in BOOLEAN : PubDispatchSettles(ok)) /\ UNCHANGED notPub
    \/ (\E ok \in BOOLEAN : PubTallySettles(ok)) /\ UNCHANGED notPub

SpecPub == Init /\ [][PubNext]_vars

MaxImpacts == 2

\* the events: for each fingerprint of the push, whether it has changed
ImpactEvents == SeqsUpTo(BOOLEAN, MaxImpacts)

\* the handler functions processPushImpact calls: the action for every
\* fingerprint (no-diff-handlers), the diffAction for the changed ones
\* (diff-handlers)
impactActions(ev) ==
    [k \in 1..Len(ev) |-> "action"]
        \o [k \in 1..Len(SelectSeq(ev, LAMBDA c : c)) |-> "diffAction"]

\* a listener that returns the promise of processPushImpact: the event's
\* outcome is that of the processing, once it is known
reportedWhenProcessed(e) ==
    CASE e.proc = "resolved" -> "Success"
      [] e.proc = "rejected" -> "Failure"
      [] OTHER -> "none"

\* return SuccessPromise: the outcome reported for the event, whatever the
\* processing does
reported(e) == "Success"

\* the listener runs: processPushImpact is started and fetches the
\* fingerprint data, and the listener returns
ListenerRuns(ev) ==
    /\ evt.pc = "idle"
    /\ LET e == [evt EXCEPT !.pc = "returned", !.proc = "fetching",
                            !.actions = [k \in 1..Len(impactActions(ev)) |->
                                            [kind |-> impactActions(ev)[k], st |-> "waiting"]]]
       IN  evt' = [e EXCEPT !.result = reported(e)]

\* the fingerprint data arrives and the handler functions are called, or the
\* fetch fails and the processing with it
FetchSettles(ok) ==
    /\ evt.proc = "fetching"
    /\ LET e == IF ok
                THEN [evt EXCEPT !.proc = "acting",
                                 !.actions = [k \in 1..Len(@) |-> [@[k] EXCEPT !.st = "running"]]]
                ELSE [evt EXCEPT !.proc = "rejected"]
       IN  evt' = [e EXCEPT !.result = reported(e)]

\* one action or diffAction (checkLibraryGoals, renderDiffSnippet) ends or
\* fails
ActionSettles(k, ok) ==
    /\ evt.proc = "acting"
    /\ k \in 1..Len(evt.actions)
    /\ evt.actions[k].st = "running"
    /\ LET e == [evt EXCEPT !.actions[k].st = IF ok THEN "done" ELSE "failed"]
       IN  evt' = [e EXCEPT !.result = reported(e)]

\* the promise of processPushImpact settles when the handler functions have
\* ended
ProcSettles(ok) ==
    /\ evt.proc = "acting"
    /\ \A k \in 1..Len(evt.actions) : evt.actions[k].st \in {"done", "failed"}
    /\ LET e == [evt EXCEPT !.proc = IF ok THEN "resolved" ELSE "rejected"]
       IN  evt' = [e EXCEPT !.result = reported(e)]

EvtNext ==
    \/ (\E ev \in ImpactEvents : ListenerRuns(ev)) /\ UNCHANGED notEvt
    \/ (\E ok \in BOOLEAN : FetchSettles(ok)) /\ UNCHANGED notEvt
    \/ (\E k \in 1..(2 * MaxImpacts), ok \in BOOLEAN : ActionSettles(k, ok))
          /\ UNCHANGED notEvt
    \/ (\E ok \in BOOLEAN : ProcSettles(ok)) /\ UNCHANGED notEvt

SpecEvt == Init /\ [][EvtNext]_vars

(***************************************************************************)
(* C37.  From the moment the listener has started processPushImpact the    *)
(* outcome reported for the event is Success, whether the processing is    *)
(* still fetching or acting, has failed at the fetch or in an action or    *)
(* diffAction, or has ended; and the listener has returned by the time any *)
(* handler function runs.                                                  *)
(***************************************************************************)
C37_SuccessWithoutWaiting ==
    /\ evt.proc # "none" => evt.pc = "returned" /\ evt.result = "Success"
    /\ (\E k \in 1..Len(evt.actions) : evt.actions[k].st # "waiting") => evt.pc = "returned"

\* Success is reported while one handler function has failed and another
\* is still running
C37_Witness ==
    /\ evt.result = "Success"
    /\ \E k \in 1..Len(evt.actions) : evt.actions[k].st = "failed"
    /\ \E k \in 1..Len(evt.actions) : evt.actions[k].st = "running"

(***************************************************************************)
(* DefaultTargetDiffHandler on a list of diffs: the diffs without a `from` *)
(* are set aside, checkFingerprintTarget is awaited for each of the others *)
(* in a for loop, and the votes returned are the checked ones followed by  *)
(* one abstention for each diff set aside.                                 *)
(***************************************************************************)
\* a handler that checks every diff against its targets
setAsideNone(diff) == FALSE

\* diffs.filter(diff => !diff.from)
setAside(diff) == diff.from = Undefined

\* _.difference(diffs, abs): the places of the diffs to check, in order
toCheck(diffs) ==
    SelectSeq([k \in 1..Len(diffs) |-> k], LAMBDA k : ~setAside(diffs[k]))

\* _.concat(checked, abs.map(() => ({abstain: true})))
defaultVotes(diffs, checked) ==
    checked \o [i \in 1..(Len(diffs) - Len(toCheck(diffs))) |-> abstainVote]

\* the handler is called: with nothing to check it returns the abstentions,
\* otherwise it starts the first check
DefaultHandlerStarts ==
    /\ dth.pc = "idle"
    /\ \E diffs \in SeqsUpTo(DiffKinds, MaxDiffs) :
          dth' = IF toCheck(diffs) = <<>>
                 THEN [dth EXCEPT !.pc = "returned", !.diffs = diffs,
                                  !.votes = defaultVotes(diffs, <<>>)]
                 ELSE [dth EXCEPT !.pc = "checking", !.diffs = diffs,
                                  !.started = <<toCheck(diffs)[1]>>]

\* checkFingerprintTarget settles with a vote on the diff, for or against:
\* the next check starts, or the handler returns; a rejection rejects the
\* handler
TargetCheckSettles(ok, failed) ==
    /\ dth.pc = "checking"
    /\ LET k == dth.started[Len(dth.started)]
           checked == Append(dth.checked, [abstain |-> FALSE, failed |-> failed, on |-> k])
           rest == toCheck(dth.diffs)
       IN  dth' = IF ~ok THEN [dth EXCEPT !.pc = "rejected"]
                  ELSE IF Len(checked) < Len(rest)
                  THEN [dth EXCEPT !.checked = checked,
                                   !.started = Append(@, rest[Len(checked) + 1])]
                  ELSE [dth EXCEPT !.pc = "returned", !.checked = checked,
                                   !.votes = defaultVotes(dth.diffs, checked)]

DthNext ==
    \/ DefaultHandlerStarts /\ UNCHANGED notDth
    \/ (\E ok \in BOOLEAN, failed \in BOOLEAN : TargetCheckSettles(ok, failed))
          /\ UNCHANGED notDth

SpecDth == Init /\ [][DthNext]_vars

=============================================================================
